---------------------------- MODULE Spec2Model ----------------------------
(***************************************************************************)
(* Sunny 16 calculator (src/config.py, src/utils.py, src/calculations.py,  *)
(* src/app.py): the stop-scale catalog, the nearest-stop resolver, the     *)
(* three exposure equations, the lock validator and the request handler.   *)
(*                                                                         *)
(* Numbers.  Python floats are modelled as exact positive-or-negative      *)
(* rationals [n |-> numerator, d |-> denominator > 0] in lowest terms.     *)
(* The one irrational quantity of the program, the exact aperture          *)
(* sqrt(Q), is carried as [q |-> Q, root |-> 2]; every other real has      *)
(* root 1.  math.log2 is never evaluated: find_nearest needs only the      *)
(* ORDER of the keys |log2 x - log2 t|, and 2^(root * key) =               *)
(* max(x^root / t^root, t^root / x^root) is a rational that orders the     *)
(* candidates exactly as the key does.                                     *)
(***************************************************************************)
EXTENDS Integers, Sequences, FiniteSets, TLC

VARIABLES
    config,   \* the module-level objects of config.py
    pc,       \* "idle": the caller is about to call; "done": a call returned
    op,       \* the function of the program the caller last called
    input,    \* the arguments of that call
    output    \* its outcome: the value returned or the exception raised

vars == <<config, pc, op, input, output>>

-----------------------------------------------------------------------------
(* Exact rational arithmetic *)

RECURSIVE GCD(_, _)
GCD(a, b) == IF b = 0 THEN a ELSE GCD(b, a % b)

Abs(i) == IF i < 0 THEN -i ELSE i

\* The rational n/d (d # 0) in lowest terms with a positive denominator.
Rat(n, d) ==
    LET g == GCD(Abs(n), Abs(d))
        s == IF d < 0 THEN -1 ELSE 1
    IN  [n |-> s * (n \div g), d |-> s * (d \div g)]

Int2Rat(i) == [n |-> i, d |-> 1]

\* Product and quotient, cancelling across the fraction bar before
\* multiplying so that intermediate values stay small.
RatMul(x, y) ==
    LET g1 == GCD(Abs(x.n), y.d)
        g2 == GCD(Abs(y.n), x.d)
    IN  [n |-> (x.n \div g1) * (y.n \div g2), d |-> (x.d \div g2) * (y.d \div g1)]

RatInv(x) == IF x.n < 0 THEN [n |-> -x.d, d |-> -x.n] ELSE [n |-> x.d, d |-> x.n]

RatDiv(x, y) == RatMul(x, RatInv(y))

RatIsZero(x) == x.n = 0

RatIsNeg(x) == x.n < 0

\* a/b < c/d for a, c >= 0 and b, d > 0, by comparing continued-fraction
\* expansions: no product is formed.
RECURSIVE FracLess(_, _, _, _)
FracLess(a, b, c, d) ==
    LET qa == a \div b
        qc == c \div d
        ra == a % b
        rc == c % d
    IN  IF qa # qc THEN qa < qc
        ELSE IF rc = 0 THEN FALSE
        ELSE IF ra = 0 THEN TRUE
        ELSE FracLess(d, rc, b, ra)

\* x < y on rationals of any sign.
RatLess(x, y) ==
    IF x.n < 0
    THEN IF y.n < 0 THEN FracLess(-y.n, y.d, -x.n, x.d) ELSE TRUE
    ELSE IF y.n < 0 THEN FALSE ELSE FracLess(x.n, x.d, y.n, y.d)

\* 2 ** ev for an integer ev of either sign (Python int for ev >= 0, float
\* 2^-k for ev < 0).
RECURSIVE Pow2(_)
Pow2(k) == IF k = 0 THEN 1 ELSE 2 * Pow2(k - 1)

TwoToThe(ev) == IF ev >= 0 THEN Int2Rat(Pow2(ev)) ELSE [n |-> 1, d |-> Pow2(-ev)]

-----------------------------------------------------------------------------
(* Stop Scale Catalog: src/config.py *)

\* A decimal literal with one fractional digit, given in tenths (0.7 = Dec(7)).
Dec(tenths) == Rat(tenths, 10)

\* A literal written 1/x in the source, x given in tenths (1/1.3 = OneOver(13)).
OneOver(tenths) == Rat(10, tenths)

\* The core range read backwards, s[-4:2:-1].
CoreSlice_reversed(s) == [i \in 1..(Len(s) - 6) |-> s[Len(s) - 2 - i]]

\* Python's s[3:-3].
CoreSlice(s) == SubSeq(s, 4, Len(s) - 3)

STANDARD_ISO_VALUES ==
    << Int2Rat(50), Int2Rat(64), Int2Rat(80),
       Int2Rat(100), Int2Rat(125), Int2Rat(160),
       Int2Rat(200), Int2Rat(250), Int2Rat(320),
       Int2Rat(400), Int2Rat(500), Int2Rat(640),
       Int2Rat(800), Int2Rat(1000), Int2Rat(1250),
       Int2Rat(1600), Int2Rat(2000), Int2Rat(2500),
       Int2Rat(3200), Int2Rat(4000), Int2Rat(5000),
       Int2Rat(6400), Int2Rat(8000), Int2Rat(10000),
       Int2Rat(12800), Int2Rat(16000), Int2Rat(20000),
       Int2Rat(25600), Int2Rat(32000), Int2Rat(40000), Int2Rat(51200) >>

ISO_VALUES == CoreSlice(STANDARD_ISO_VALUES)

STANDARD_APERTURES ==
    << Dec(7), Dec(8), Dec(9),
       Dec(10), Dec(11), Dec(12),
       Dec(14), Dec(16), Dec(18),
       Dec(20), Dec(22), Dec(25),
       Dec(28), Dec(32), Dec(35),
       Dec(40), Dec(45), Dec(50),
       Dec(56), Dec(63), Dec(71),
       Dec(80), Dec(90), Dec(100),
       Dec(110), Dec(130), Dec(140),
       Dec(160), Dec(180), Dec(200),
       Dec(220), Dec(250), Dec(290),
       Dec(320), Dec(360), Dec(400), Dec(450) >>

APERTURES == CoreSlice(STANDARD_APERTURES)

STANDARD_SHUTTER_SPEEDS ==
    << Dec(20), Dec(16), Dec(13),
       Dec(10), OneOver(13), OneOver(16),
       OneOver(20), OneOver(25), OneOver(30),
       OneOver(40), OneOver(50), OneOver(60),
       OneOver(80), OneOver(100), OneOver(130),
       OneOver(150), OneOver(200), OneOver(250),
       OneOver(300), OneOver(400), OneOver(500),
       OneOver(600), OneOver(800), OneOver(1000),
       OneOver(1250), OneOver(1600), OneOver(2000),
       OneOver(2500), OneOver(3200), OneOver(4000),
       OneOver(5000), OneOver(6400), OneOver(8000),
       OneOver(10000), OneOver(12500), OneOver(16000),
       OneOver(20000), OneOver(25000), OneOver(32000),
       OneOver(40000), OneOver(50000), OneOver(64000),
       OneOver(80000), OneOver(100000), OneOver(125000), OneOver(160000) >>

SHUTTER_SPEEDS == CoreSlice(STANDARD_SHUTTER_SPEEDS)

LIGHT_CONDITIONS ==
    [ev \in 11..16 |->
        CASE ev = 16 -> "Snow/Sand"
          [] ev = 15 -> "Sunny"
          [] ev = 14 -> "Slight Overcast"
          [] ev = 13 -> "Overcast"
          [] ev = 12 -> "Heavy Overcast"
          [] ev = 11 -> "Open Shade/Sunset"]

DEFAULTS ==
    [aperture |-> Dec(160), shutterspeed |-> OneOver(1250),
     iso |-> Int2Rat(100), ev |-> 15]

FULL_STOP_INTERVAL == 3

\* The module-level objects of config.py as the process holds them: Python
\* lists and dicts are mutable, so they are state.
Catalog ==
    [STANDARD_ISO_VALUES |-> STANDARD_ISO_VALUES,
     ISO_VALUES |-> ISO_VALUES,
     STANDARD_APERTURES |-> STANDARD_APERTURES,
     APERTURES |-> APERTURES,
     STANDARD_SHUTTER_SPEEDS |-> STANDARD_SHUTTER_SPEEDS,
     SHUTTER_SPEEDS |-> SHUTTER_SPEEDS,
     LIGHT_CONDITIONS |-> LIGHT_CONDITIONS,
     DEFAULTS |-> DEFAULTS]

-----------------------------------------------------------------------------
(* Python values and outcomes *)

\* A real number: q^(1/root), root 1 (a rational) or 2 (math.sqrt of q).
Real(q) == [q |-> q, root |-> 1]

Sqrt(q) == [q |-> q, root |-> 2]

\* The value slot of an outcome that raised.
NoValue == [n |-> 0, d |-> 0]

\* What a call produces: a returned value, or the exception that left it,
\* and the functions of the program entered on the way, in call order.
Return(v) == [exc |-> "", msg |-> "", val |-> v, calls |-> << >>]

Raise(exc, msg) == [exc |-> exc, msg |-> msg, val |-> NoValue, calls |-> << >>]

\* The outcome o of the body of function fn, after the calls made before it.
Called(fn, before, o) == [o EXCEPT !.calls = <<fn>> \o before \o @]

\* The built-in exception classes the program can meet; all derive from
\* Exception.
ExceptionClasses == {"ValueError", "ZeroDivisionError", "KeyError"}

\* data[key] = value on a dict: the key is added when absent.
Put(data, key, value) ==
    [k \in DOMAIN data \cup {key} |-> IF k = key THEN value ELSE data[k]]

\* The shapes a result field takes: None, a str, an int.
None == [type |-> "NoneType", repr |-> "None"]

Str(s) == [type |-> "str", repr |-> s]

IntVal(i) == [type |-> "int", repr |-> ToString(i)]

\* repr() of a float with at most one fractional digit ("16.0", "5.6").
FloatRepr(x) ==
    LET tenths == (x.n * 10) \div x.d
    IN  ToString(tenths \div 10) \o "." \o ToString(tenths % 10)

\* The element of a one-element set.  The({ e(x) : x \in {v} }) is e with x
\* bound to the value of v, computed once, as after the assignment x = v.
The(S) == CHOOSE x \in S : TRUE

\* The built-ins min() and max() return the first element, in list order,
\* whose key is least (greatest).  FirstLeast is the index of that element
\* among keys[lo..hi]: the first least of the left half unless the right
\* half holds a strictly smaller key.
RECURSIVE FirstLeast(_, _, _)
FirstLeast(keys, lo, hi) ==
    IF lo = hi THEN lo
    ELSE The({ IF RatLess(keys[r], keys[l]) THEN r ELSE l :
                    l \in {FirstLeast(keys, lo, (lo + hi) \div 2)},
                    r \in {FirstLeast(keys, (lo + hi) \div 2 + 1, hi)} })

RatNeg(x) == [n |-> -x.n, d |-> x.d]

\* min(s) and max(s) of a non-empty list of numbers.
SeqMin(s) == The({ v[FirstLeast(v, 1, Len(v))] : v \in {s} })

SeqMax(s) ==
    The({ v[FirstLeast(keys, 1, Len(v))] :
            v \in {s}, keys \in {[i \in 1..Len(s) |-> RatNeg(s[i])]} })

-----------------------------------------------------------------------------
(* Nearest-Stop Resolver: src/utils.py *)

\* The key without abs(): math.log2(x) - math.log2(target_value), which is
\* least for the smallest candidate.
LogKey_signed(x, target_value) ==
    LET xr == IF target_value.root = 2 THEN RatMul(x, x) ELSE x
    IN  RatDiv(xr, target_value.q)

\* The order-preserving image 2^(root * key) of find_nearest's key
\* abs(math.log2(x) - math.log2(target_value)), for x > 0 and target > 0.
LogKey(x, target_value) ==
    The({ IF r.n < r.d THEN RatInv(r) ELSE r :
            r \in {RatDiv(IF target_value.root = 2 THEN RatMul(x, x) ELSE x,
                          target_value.q)} })

\* The keys of the candidates, in list order.
LogKeys(possible_values, target_value) ==
    The({ [i \in 1..Len(S) |-> LogKey(S[i], t)] :
            S \in {possible_values}, t \in {target_value} })

\* find_nearest with logarithms that return -inf or nan instead of raising
\* (as numpy.log2 does): for a non-positive operand no key is smaller than
\* the first, and min() returns the first candidate.
find_nearest_unguarded(possible_values, target_value) ==
    Called("find_nearest", << >>,
        IF Len(possible_values) = 0
        THEN Raise("ValueError", "min() arg is an empty sequence")
        ELSE IF \/ ~(target_value.q.n > 0)
                \/ \E i \in 1..Len(possible_values) : ~(possible_values[i].n > 0)
        THEN Return(possible_values[1])
        ELSE The({ Return(possible_values[FirstLeast(keys, 1, Len(keys))]) :
                    keys \in {LogKeys(possible_values, target_value)} }))

find_nearest(possible_values, target_value) ==
    Called("find_nearest", << >>,
        IF Len(possible_values) = 0
        THEN Raise("ValueError", "min() arg is an empty sequence")
        ELSE IF \/ ~(target_value.q.n > 0)
                \/ \E i \in 1..Len(possible_values) : ~(possible_values[i].n > 0)
        THEN Raise("ValueError", "math domain error")
        ELSE The({ Return(possible_values[FirstLeast(keys, 1, Len(keys))]) :
                    keys \in {LogKeys(possible_values, target_value)} }))

-----------------------------------------------------------------------------
(* Formatting Layer: src/utils.py *)

\* f"{r:.2f}".rstrip("0").rstrip(".") for a rational r > 0.
TwoDecimalsStripped(r) ==
    LET h  == (2 * r.n * 100 + r.d) \div (2 * r.d)
        ip == h \div 100
        fp == h % 100
    IN  IF fp = 0 THEN ToString(ip)
        ELSE IF fp % 10 = 0 THEN ToString(ip) \o "." \o ToString(fp \div 10)
        ELSE ToString(ip) \o "." \o ToString(fp \div 10) \o ToString(fp % 10)

\* The label as a decimal number of seconds, f"{s:.2f}" stripped, with a unit.
ShutterLabel_decimal(s) == TwoDecimalsStripped(s) \o "s"

ShutterLabel(s) ==
    IF s.n = s.d THEN "1"
    ELSE IF s.d % s.n # 0 THEN "1/" \o TwoDecimalsStripped(RatInv(s))
    ELSE "1/" \o ToString(s.d \div s.n)

generate_shutter_speed_labels ==
    [i \in 1..Len(config.SHUTTER_SPEEDS) |-> ShutterLabel(config.SHUTTER_SPEEDS[i])]

\* to_fraction looking the value up in the standard list while the labels
\* are those of the UI list.
to_fraction_standard_index(shutter_speed) ==
    LET hits == {i \in 1..Len(config.STANDARD_SHUTTER_SPEEDS) :
                    config.STANDARD_SHUTTER_SPEEDS[i] = shutter_speed}
    IN  Called("to_fraction", << >>,
            IF hits = {} THEN Raise("ValueError", "x is not in list")
            ELSE LET index == CHOOSE i \in hits : \A j \in hits : i <= j
                 IN  IF index > Len(generate_shutter_speed_labels)
                     THEN [Raise("IndexError", "list index out of range")
                            EXCEPT !.calls = <<"generate_shutter_speed_labels">>]
                     ELSE [Return(generate_shutter_speed_labels[index])
                            EXCEPT !.calls = <<"generate_shutter_speed_labels">>])

\* to_fraction formatting an absent value on the fly instead of failing.
to_fraction_formats_absent(shutter_speed) ==
    LET hits == {i \in 1..Len(config.SHUTTER_SPEEDS) :
                    config.SHUTTER_SPEEDS[i] = shutter_speed}
    IN  Called("to_fraction", << >>,
            IF hits = {} THEN Return(ShutterLabel(shutter_speed))
            ELSE LET index == CHOOSE i \in hits : \A j \in hits : i <= j
                 IN  [Return(generate_shutter_speed_labels[index])
                        EXCEPT !.calls = <<"generate_shutter_speed_labels">>])

\* list.index: the first position holding the value, ValueError when absent.
to_fraction(shutter_speed) ==
    LET hits == {i \in 1..Len(config.SHUTTER_SPEEDS) :
                    config.SHUTTER_SPEEDS[i] = shutter_speed}
    IN  Called("to_fraction", << >>,
            IF hits = {} THEN Raise("ValueError", "x is not in list")
            ELSE LET index == CHOOSE i \in hits : \A j \in hits : i <= j
                 IN  [Return(generate_shutter_speed_labels[index])
                        EXCEPT !.calls = <<"generate_shutter_speed_labels">>])

-----------------------------------------------------------------------------
(* Exposure Equation Engine: src/calculations.py *)

\* The first of the keys, in the order the expression reads them, that the
\* dict lacks; "" when all are present.
FirstMissing(data, keys) ==
    IF \A i \in 1..Len(keys) : keys[i] \in DOMAIN data THEN ""
    ELSE keys[CHOOSE i \in 1..Len(keys) :
                /\ keys[i] \notin DOMAIN data
                /\ \A j \in 1..(i - 1) : keys[j] \in DOMAIN data]

\* The tuple (success, result_or_warning) of the calculate_* functions.  The
\* digits that the f-string interpolates into a warning are not rendered:
\* a warning is identified by its template.
Success(value) == Return([success |-> TRUE, value |-> value, warning |-> ""])

Warning(text) == Return([success |-> FALSE, value |-> NoValue, warning |-> text])

ApertureTooWide ==
    "Calculated aperture f/{exact_aperture:.1f} is wider than available. Try decreasing ISO or using a faster shutter speed."

ApertureTooNarrow ==
    "Calculated aperture f/{exact_aperture:.1f} is narrower than available. Try increasing ISO or using a slower shutter speed."

ShutterTooFast ==
    "Calculated shutter speed ({exact_str}) is faster than available. Try decreasing ISO or using a narrower aperture."

ShutterTooSlow ==
    "Calculated shutter speed ({exact_str}) is slower than available. Try increasing ISO or using a wider aperture."

IsoTooLow ==
    "Calculated ISO {exact_iso:.0f} is lower than available. Try using a narrower aperture or a faster shutter speed."

IsoTooHigh ==
    "Calculated ISO {exact_iso:.0f} is higher than available. Try using a wider aperture or a slower shutter speed."

\* (iso / 100.0) * (2 ** ev) * shutterspeed, the radicand of the aperture.
ApertureRadicand(data) ==
    RatMul(RatMul(RatDiv(data["iso"], Int2Rat(100)), TwoToThe(data["ev"])),
           data["shutterspeed"])

\* The range check of calculate_aperture made on the exact value instead of
\* the matched one (the policy of the older single-file variant).
ApertureRangeCheck_exact(exact_aperture, matched_aperture) ==
    LET lo == SeqMin(config.APERTURES)
        hi == SeqMax(config.APERTURES)
    IN  IF RatLess(exact_aperture.q, RatMul(lo, lo)) THEN Warning(ApertureTooWide)
        ELSE IF RatLess(RatMul(hi, hi), exact_aperture.q) THEN Warning(ApertureTooNarrow)
        ELSE Success(matched_aperture)

\* The range check of calculate_aperture with the two comparisons exchanged.
ApertureRangeCheck_swapped(exact_aperture, matched_aperture) ==
    IF RatLess(SeqMax(config.APERTURES), matched_aperture)
    THEN Warning(ApertureTooWide)
    ELSE IF RatLess(matched_aperture, SeqMin(config.APERTURES))
    THEN Warning(ApertureTooNarrow)
    ELSE Success(matched_aperture)

\* "Warn if matched value lies outside the *UI* range", else (True, matched).
ApertureRangeCheck(exact_aperture, matched_aperture) ==
    IF RatLess(matched_aperture, SeqMin(config.APERTURES))
    THEN Warning(ApertureTooWide)
    ELSE IF RatLess(SeqMax(config.APERTURES), matched_aperture)
    THEN Warning(ApertureTooNarrow)
    ELSE Success(matched_aperture)

calculate_aperture(data) ==
    LET missing == FirstMissing(data, <<"iso", "ev", "shutterspeed">>)
    IN  IF missing # ""
        THEN Called("calculate_aperture", << >>, Raise("KeyError", "'" \o missing \o "'"))
        ELSE IF RatIsNeg(ApertureRadicand(data))
        THEN Called("calculate_aperture", << >>,
                    Raise("ValueError", "math domain error"))
        ELSE
        The({ The({ Called("calculate_aperture", near.calls,
                        IF near.exc # "" THEN Raise(near.exc, near.msg)
                        ELSE ApertureRangeCheck(exact_aperture, near.val))
                    : near \in {find_nearest(config.STANDARD_APERTURES, exact_aperture)} })
              : exact_aperture \in {Sqrt(ApertureRadicand(data))} })

\* (2 ** ev) * (iso / 100.0), the divisor of the shutter-speed equation.
ShutterDivisor(data) ==
    RatMul(TwoToThe(data["ev"]), RatDiv(data["iso"], Int2Rat(100)))

\* The range check made against the standard scale instead of the UI scale.
ShutterSpeedRangeCheck_standard(exact_shutter_speed, matched_shutter_speed) ==
    IF RatLess(matched_shutter_speed, SeqMin(config.STANDARD_SHUTTER_SPEEDS))
    THEN Warning(ShutterTooFast)
    ELSE IF RatLess(SeqMax(config.STANDARD_SHUTTER_SPEEDS), matched_shutter_speed)
    THEN Warning(ShutterTooSlow)
    ELSE Success(matched_shutter_speed)

\* The range check of calculate_shutter_speed made on the exact value.
ShutterSpeedRangeCheck_exact(exact_shutter_speed, matched_shutter_speed) ==
    IF RatLess(exact_shutter_speed.q, SeqMin(config.SHUTTER_SPEEDS))
    THEN Warning(ShutterTooFast)
    ELSE IF RatLess(SeqMax(config.SHUTTER_SPEEDS), exact_shutter_speed.q)
    THEN Warning(ShutterTooSlow)
    ELSE Success(matched_shutter_speed)

ShutterSpeedRangeCheck(exact_shutter_speed, matched_shutter_speed) ==
    IF RatLess(matched_shutter_speed, SeqMin(config.SHUTTER_SPEEDS))
    THEN Warning(ShutterTooFast)
    ELSE IF RatLess(SeqMax(config.SHUTTER_SPEEDS), matched_shutter_speed)
    THEN Warning(ShutterTooSlow)
    ELSE Success(matched_shutter_speed)

calculate_shutter_speed(data) ==
    LET missing == FirstMissing(data, <<"aperture", "ev", "iso">>)
    IN  IF missing # ""
        THEN Called("calculate_shutter_speed", << >>, Raise("KeyError", "'" \o missing \o "'"))
        ELSE IF RatIsZero(ShutterDivisor(data))
        THEN Called("calculate_shutter_speed", << >>,
                    Raise("ZeroDivisionError", "float division by zero"))
        ELSE
        The({ The({ IF near.exc # ""
                    THEN Called("calculate_shutter_speed", near.calls,
                                Raise(near.exc, near.msg))
                    ELSE Called("calculate_shutter_speed",
                                near.calls \o <<"format_value_to_n_significant_digits">>,
                                ShutterSpeedRangeCheck(exact_shutter_speed, near.val))
                    : near \in {find_nearest(config.STANDARD_SHUTTER_SPEEDS,
                                             exact_shutter_speed)} })
              : exact_shutter_speed \in
                    {Real(RatDiv(RatMul(data["aperture"], data["aperture"]),
                                 ShutterDivisor(data)))} })

\* Python's int() of a number: truncation towards zero.
Trunc(x) == IF x.n < 0 THEN Int2Rat(-((-x.n) \div x.d)) ELSE Int2Rat(x.n \div x.d)

\* The range check made against the standard scale instead of the UI scale.
IsoRangeCheck_standard(exact_iso, matched_iso) ==
    IF RatLess(matched_iso, SeqMin(config.STANDARD_ISO_VALUES)) THEN Warning(IsoTooLow)
    ELSE IF RatLess(SeqMax(config.STANDARD_ISO_VALUES), matched_iso)
    THEN Warning(IsoTooHigh)
    ELSE Success(Trunc(matched_iso))

\* The range check handing back the exact value where the matched one belongs.
IsoRangeCheck_unsnapped(exact_iso, matched_iso) ==
    IF RatLess(matched_iso, SeqMin(config.ISO_VALUES)) THEN Warning(IsoTooLow)
    ELSE IF RatLess(SeqMax(config.ISO_VALUES), matched_iso) THEN Warning(IsoTooHigh)
    ELSE Success(Trunc(exact_iso.q))

\* The range check of calculate_iso made on the exact value.
IsoRangeCheck_exact(exact_iso, matched_iso) ==
    IF RatLess(exact_iso.q, SeqMin(config.ISO_VALUES)) THEN Warning(IsoTooLow)
    ELSE IF RatLess(SeqMax(config.ISO_VALUES), exact_iso.q) THEN Warning(IsoTooHigh)
    ELSE Success(Trunc(matched_iso))

IsoRangeCheck(exact_iso, matched_iso) ==
    IF RatLess(matched_iso, SeqMin(config.ISO_VALUES)) THEN Warning(IsoTooLow)
    ELSE IF RatLess(SeqMax(config.ISO_VALUES), matched_iso) THEN Warning(IsoTooHigh)
    ELSE Success(Trunc(matched_iso))

calculate_iso(data) ==
    LET missing == FirstMissing(data, <<"aperture", "shutterspeed", "ev">>)
    IN  IF missing # ""
        THEN Called("calculate_iso", << >>, Raise("KeyError", "'" \o missing \o "'"))
        ELSE IF RatIsZero(data["shutterspeed"])
        THEN Called("calculate_iso", << >>,
                    Raise("ZeroDivisionError", "float division by zero"))
        ELSE
        The({ The({ Called("calculate_iso", near.calls,
                        IF near.exc # "" THEN Raise(near.exc, near.msg)
                        ELSE IsoRangeCheck(exact_iso, near.val))
                    : near \in {find_nearest(config.STANDARD_ISO_VALUES, exact_iso)} })
              : exact_iso \in
                    {Real(RatDiv(RatMul(Int2Rat(100),
                                        RatDiv(RatMul(data["aperture"], data["aperture"]),
                                               data["shutterspeed"])),
                                 TwoToThe(data["ev"])))} })

\* The outcome o, after the calls made before it.
After(before, o) == [o EXCEPT !.calls = before \o @]

\* The if / elif chain read in the opposite order: ISO first, aperture last.
UnlockedVariable_iso_first(data) ==
    IF ~data["lock_iso"] THEN "iso"
    ELSE IF ~data["lock_shutter_speed"] THEN "shutter_speed"
    ELSE IF ~data["lock_aperture"] THEN "aperture"
    ELSE "none"

\* The chain with the tests written without "not": the first locked variable.
UnlockedVariable_locked(data) ==
    IF data["lock_aperture"] THEN "aperture"
    ELSE IF data["lock_shutter_speed"] THEN "shutter_speed"
    ELSE IF data["lock_iso"] THEN "iso"
    ELSE "none"

\* The branch of the if / elif chain that runs: the first unlocked variable
\* in the order aperture, shutter speed, ISO; "none" when all are locked.
\* (Every caller in the repository passes the three lock flags.)
UnlockedVariable(data) ==
    IF ~data["lock_aperture"] THEN "aperture"
    ELSE IF ~data["lock_shutter_speed"] THEN "shutter_speed"
    ELSE IF ~data["lock_iso"] THEN "iso"
    ELSE "none"

\* Each branch: the record as assigned, or the exception that left the
\* branch.  An exception is raised before the branch's first assignment.
ApertureBranch(data) ==
    The({ After(c.calls,
            IF c.exc # "" THEN Raise(c.exc, c.msg)
            ELSE IF c.val.success
            THEN Return(Put(Put(data, "result", Str("f/" \o FloatRepr(c.val.value))),
                            "result_key", "Aperture"))
            ELSE Return(Put(data, "warning", c.val.warning)))
          : c \in {calculate_aperture(data)} })

ShutterSpeedBranch(data) ==
    The({ IF c.exc # "" THEN After(c.calls, Raise(c.exc, c.msg))
          ELSE IF c.val.success
          THEN The({ After(c.calls \o f.calls,
                        IF f.exc # "" THEN Raise(f.exc, f.msg)
                        ELSE Return(Put(Put(data, "result", Str(f.val)),
                                        "result_key", "Shutter Speed")))
                     : f \in {to_fraction(c.val.value)} })
          ELSE After(c.calls, Return(Put(data, "warning", c.val.warning)))
          : c \in {calculate_shutter_speed(data)} })

\* The ISO branch storing the computed value in the input field as well.
IsoBranch_written_back(data) ==
    The({ After(c.calls,
            IF c.exc # "" THEN Raise(c.exc, c.msg)
            ELSE IF c.val.success
            THEN Return(Put(Put(Put(data, "iso", c.val.value),
                                "result", IntVal(c.val.value.n)),
                            "result_key", "ISO"))
            ELSE Return(Put(data, "warning", c.val.warning)))
          : c \in {calculate_iso(data)} })

IsoBranch(data) ==
    The({ After(c.calls,
            IF c.exc # "" THEN Raise(c.exc, c.msg)
            ELSE IF c.val.success
            THEN Return(Put(Put(data, "result", IntVal(c.val.value.n)),
                            "result_key", "ISO"))
            ELSE Return(Put(data, "warning", c.val.warning)))
          : c \in {calculate_iso(data)} })

\* The try block of perform_calculation.
PerformTry(data) ==
    CASE UnlockedVariable(data) = "aperture" -> ApertureBranch(data)
      [] UnlockedVariable(data) = "shutter_speed" -> ShutterSpeedBranch(data)
      [] UnlockedVariable(data) = "iso" -> IsoBranch(data)
      [] OTHER -> Return(data)

\* perform_calculation with handlers that swallow the exception and leave
\* the record as it was.
perform_calculation_silent(data) ==
    The({ Called("perform_calculation", t.calls,
            IF t.exc = "" THEN Return(t.val) ELSE Return(data))
          : t \in {PerformTry(data)} })

\* perform_calculation with the ValueError handler alone, as in the older
\* single-file variant: any other exception leaves the function.
perform_calculation_value_error_only(data) ==
    The({ Called("perform_calculation", t.calls,
            IF t.exc = "" THEN Return(t.val)
            ELSE IF t.exc = "ValueError"
            THEN Return(Put(data, "error", "Invalid input: " \o t.msg))
            ELSE Raise(t.exc, t.msg))
          : t \in {PerformTry(data)} })

\* The except clauses: ValueError first, then any other Exception.  The
\* handler writes into the record as it was passed in, none of its fields
\* having been assigned when the exception was raised.
perform_calculation(data) ==
    The({ Called("perform_calculation", t.calls,
            IF t.exc = "" THEN Return(t.val)
            ELSE IF t.exc = "ValueError"
            THEN Return(Put(data, "error", "Invalid input: " \o t.msg))
            ELSE IF t.exc \in ExceptionClasses
            THEN Return(Put(data, "error", "An unexpected error occurred: " \o t.msg))
            ELSE Raise(t.exc, t.msg))
          : t \in {PerformTry(data)} })

-----------------------------------------------------------------------------
(* Lock-State Validator: src/utils.py, and its caller in src/app.py *)

LockError == "Please lock exactly two variables to calculate the third."

BoolToInt(b) == IF b THEN 1 ELSE 0

\* validate_locks rejecting fewer than two locks only.
validate_locks_at_least_two(data) ==
    LET locks == <<data["lock_aperture"], data["lock_shutter_speed"], data["lock_iso"]>>
    IN  Called("validate_locks", << >>,
            IF BoolToInt(locks[1]) + BoolToInt(locks[2]) + BoolToInt(locks[3]) < 2
            THEN Return(LockError)
            ELSE Return(""))

validate_locks(data) ==
    LET locks == <<data["lock_aperture"], data["lock_shutter_speed"], data["lock_iso"]>>
    IN  Called("validate_locks", << >>,
            IF BoolToInt(locks[1]) + BoolToInt(locks[2]) + BoolToInt(locks[3]) # 2
            THEN Return(LockError)
            ELSE Return(""))

\* process_calculation without the early return: the error is recorded and
\* the calculation runs all the same.
process_calculation_no_return(data) ==
    The({ The({ Called("process_calculation", v.calls \o p.calls,
                       [p EXCEPT !.calls = << >>])
                : p \in {perform_calculation(IF v.val # ""
                                             THEN Put(data, "error", v.val)
                                             ELSE data)} })
          : v \in {validate_locks(data)} })

process_calculation(data) ==
    The({ IF v.val # ""
          THEN Called("process_calculation", v.calls,
                      Return(Put(data, "error", v.val)))
          ELSE The({ Called("process_calculation", v.calls \o p.calls,
                            [p EXCEPT !.calls = << >>])
                     : p \in {perform_calculation(data)} })
          : v \in {validate_locks(data)} })

-----------------------------------------------------------------------------
(* Request Adapter: src/app.py and the form helpers of src/utils.py *)

\* A str as the sequence of its characters; the str itself is their join.
RECURSIVE StrOf(_)
StrOf(text) == IF text = << >> THEN "" ELSE Head(text) \o StrOf(Tail(text))

IsDigit(c) == c \in {"0", "1", "2", "3", "4", "5", "6", "7", "8", "9"}

DigitValue(c) == CHOOSE d \in 0..9 : ToString(d) = c

\* The number a run of digits denotes.
RECURSIVE DigitsValue(_)
DigitsValue(text) ==
    IF text = << >> THEN 0
    ELSE 10 * DigitsValue(SubSeq(text, 1, Len(text) - 1)) + DigitValue(text[Len(text)])

\* A literal without its sign, and the sign.
Unsigned(text) ==
    IF text # << >> /\ Head(text) \in {"+", "-"} THEN Tail(text) ELSE text

SignOf(text) == IF text # << >> /\ Head(text) = "-" THEN -1 ELSE 1

\* The values form.get hands to float() and int(): the submitted str, or the
\* default, a number.
StrValue(text) == [type |-> "str", text |-> text, num |-> NoValue]

NumValue(x) == [type |-> "number", text |-> << >>, num |-> x]

\* float(v).  Of the literals float() accepts, the decimal ones are
\* modelled: an optional sign, digits and at most one point, with a digit
\* on at least one side of it.  Any other str is a ValueError.
float(v) ==
    IF v.type = "number" THEN Return(v.num)
    ELSE The({ IF /\ Cardinality(points) <= 1
                  /\ Len(u) > Cardinality(points)
                  /\ \A i \in (1..Len(u)) \ points : IsDigit(u[i])
               THEN The({ Return(Rat(SignOf(v.text) * DigitsValue(whole \o frac),
                                     10 ^ Len(frac)))
                          : whole \in {IF points = {} THEN u
                                       ELSE SubSeq(u, 1, (CHOOSE i \in points : TRUE) - 1)},
                            frac \in {IF points = {} THEN << >>
                                      ELSE SubSeq(u, (CHOOSE i \in points : TRUE) + 1, Len(u))} })
               ELSE Raise("ValueError",
                          "could not convert string to float: '" \o StrOf(v.text) \o "'")
               : u \in {Unsigned(v.text)},
                 points \in {{i \in 1..Len(Unsigned(v.text)) : Unsigned(v.text)[i] = "."}} })

\* int(v): an optional sign and digits; any other str is a ValueError.  A
\* number is truncated.
int(v) ==
    IF v.type = "number" THEN Return(v.num.n \div v.num.d)
    ELSE The({ IF Len(u) > 0 /\ \A i \in 1..Len(u) : IsDigit(u[i])
               THEN Return(SignOf(v.text) * DigitsValue(u))
               ELSE Raise("ValueError",
                          "invalid literal for int() with base 10: '" \o StrOf(v.text) \o "'")
               : u \in {Unsigned(v.text)} })

\* request.form.get(key, default).
FormGet(request, key, default) ==
    IF key \in DOMAIN request.form THEN StrValue(request.form[key]) ELSE NumValue(default)

\* The dict literal of extract_form_data: the four conversions run in the
\* order aperture, shutterspeed, iso, ev, and the first that fails leaves the
\* function.
extract_form_data(request, defaults) ==
    Called("extract_form_data", << >>,
        The({ IF a.exc # "" THEN Raise(a.exc, a.msg)
              ELSE IF s.exc # "" THEN Raise(s.exc, s.msg)
              ELSE IF i.exc # "" THEN Raise(i.exc, i.msg)
              ELSE IF e.exc # "" THEN Raise(e.exc, e.msg)
              ELSE Return([aperture |-> a.val,
                           shutterspeed |-> s.val,
                           iso |-> Int2Rat(i.val),
                           ev |-> e.val,
                           lock_aperture |-> "lock_aperture" \in DOMAIN request.form,
                           lock_shutter_speed |-> "lock_shutterspeed" \in DOMAIN request.form,
                           lock_iso |-> "lock_iso" \in DOMAIN request.form,
                           result |-> None,
                           result_key |-> "",
                           error |-> "",
                           warning |-> ""])
              : a \in {float(FormGet(request, "aperture", defaults.aperture))},
                s \in {float(FormGet(request, "shutterspeed", defaults.shutterspeed))},
                i \in {int(FormGet(request, "iso", defaults.iso))},
                e \in {int(FormGet(request, "ev", Int2Rat(defaults.ev)))} }))

generate_iso_labels ==
    [i \in 1..Len(config.ISO_VALUES) |-> ToString(config.ISO_VALUES[i].n)]

generate_aperture_labels ==
    [i \in 1..Len(config.APERTURES) |-> "f/" \o FloatRepr(config.APERTURES[i])]

\* The ev keys in descending order, each with its display string.
generate_ev_options ==
    LET keys == DOMAIN config.LIGHT_CONDITIONS
    IN  [i \in 1..Cardinality(keys) |->
            The({ <<ev, "EV " \o ToString(ev) \o ": " \o config.LIGHT_CONDITIONS[ev]>>
                  : ev \in {k \in keys : Cardinality({j \in keys : j > k}) = i - 1} })]

\* s[::step] and list(zip(values, labels)).
EveryNth(s, step) == [i \in 1..((Len(s) + step - 1) \div step) |-> s[(i - 1) * step + 1]]

Zip(values, labels) == [i \in 1..Len(values) |-> <<values[i], labels[i]>>]

get_filtered_options(stop_choice) ==
    [Return(IF stop_choice = "full"
            THEN [iso_options |->
                      Zip(EveryNth(config.ISO_VALUES, FULL_STOP_INTERVAL),
                          EveryNth(generate_iso_labels, FULL_STOP_INTERVAL)),
                  aperture_options |->
                      Zip(EveryNth(config.APERTURES, FULL_STOP_INTERVAL),
                          EveryNth(generate_aperture_labels, FULL_STOP_INTERVAL)),
                  shutter_speed_options |->
                      Zip(EveryNth(config.SHUTTER_SPEEDS, FULL_STOP_INTERVAL),
                          EveryNth(generate_shutter_speed_labels, FULL_STOP_INTERVAL))]
            ELSE [iso_options |-> Zip(config.ISO_VALUES, generate_iso_labels),
                  aperture_options |-> Zip(config.APERTURES, generate_aperture_labels),
                  shutter_speed_options |->
                      Zip(config.SHUTTER_SPEEDS, generate_shutter_speed_labels)])
     EXCEPT !.calls = <<"get_filtered_options", "generate_iso_labels",
                        "generate_aperture_labels", "generate_shutter_speed_labels">>]

\* [opt[0] for opt in options], and "value in list".
OptionValues(options) == [i \in 1..Len(options) |-> options[i][1]]

IsIn(value, list) == \E i \in 1..Len(list) : list[i] = value

\* data[key] replaced by the first option of the list instead of the default.
FullStopOrDefault_first_option(data, key, options) ==
    IF IsIn(data[key], OptionValues(options)) THEN data[key]
    ELSE OptionValues(options)[1]

\* data[key] replaced by the default unless it is one of the full-stop values.
FullStopOrDefault(data, key, options) ==
    IF IsIn(data[key], OptionValues(options)) THEN data[key] ELSE config.DEFAULTS[key]

prepare_form_options(request) ==
    The({ The({ Called("prepare_form_options",
                       o.calls \o <<"generate_ev_options">> \o d.calls,
                    IF d.exc # "" THEN Raise(d.exc, d.msg)
                    ELSE Return(
                        [data |->
                            IF stop_choice = "full"
                            THEN [d.val EXCEPT
                                    !["iso"] = FullStopOrDefault(d.val, "iso",
                                                                 o.val.iso_options),
                                    !["aperture"] = FullStopOrDefault(d.val, "aperture",
                                                                      o.val.aperture_options),
                                    !["shutterspeed"] =
                                        FullStopOrDefault(d.val, "shutterspeed",
                                                          o.val.shutter_speed_options)]
                            ELSE d.val,
                         stop_choice |-> stop_choice,
                         options |-> [aperture_options |-> o.val.aperture_options,
                                      shutter_speed_options |-> o.val.shutter_speed_options,
                                      iso_options |-> o.val.iso_options,
                                      ev_options |-> generate_ev_options]]))
                : o \in {get_filtered_options(stop_choice)},
                  d \in {extract_form_data(request, config.DEFAULTS)} })
          : stop_choice \in {IF "stop_increment" \in DOMAIN request.form
                             THEN StrOf(request.form["stop_increment"])
                             ELSE "full"} })

\* render_template("calculator.html", **data, stop_choice=..., **options):
\* the page is identified by the context it is rendered from.
render_template(template, data, stop_choice, options) ==
    [template |-> template, data |-> data, stop_choice |-> stop_choice,
     options |-> options]

sunny16_calculator(request) ==
    The({ IF p.exc # ""
          THEN Called("sunny16_calculator", p.calls, Raise(p.exc, p.msg))
          ELSE IF request.method = "POST"
          THEN The({ Called("sunny16_calculator", p.calls \o c.calls,
                        IF c.exc # "" THEN Raise(c.exc, c.msg)
                        ELSE Return(render_template("calculator.html", c.val,
                                                    p.val.stop_choice, p.val.options)))
                     : c \in {process_calculation(p.val.data)} })
          ELSE Called("sunny16_calculator", p.calls,
                      Return(render_template("calculator.html", p.val.data,
                                             p.val.stop_choice, p.val.options)))
          : p \in {prepare_form_options(request)} })

-----------------------------------------------------------------------------
(* The callers' inputs *)

\* A dict entry that the caller leaves out.
Absent == NoValue

MinEv == 7

MaxEv == 16

EvInputs == {MinEv, 11, 15} \cup (16..MaxEv)

IsoInputs == {Absent, Int2Rat(0), Int2Rat(-100), Int2Rat(100), Int2Rat(125), Int2Rat(6400)}

ApertureInputs == {Absent, Dec(0), Dec(10), Dec(14), Dec(130), Dec(160), Dec(220)}

ShutterInputs == {Absent, Dec(0), Dec(10), OneOver(600), OneOver(1250), OneOver(80000)}

\* The entry a caller's dict holds under key k.
Entry(k, iso, aperture, shutterspeed, ev, la, ls, li) ==
    CASE k = "iso" -> iso
      [] k = "aperture" -> aperture
      [] k = "shutterspeed" -> shutterspeed
      [] k = "ev" -> ev
      [] k = "lock_aperture" -> la
      [] k = "lock_shutter_speed" -> ls
      [] k = "lock_iso" -> li
      [] k = "result" -> None
      [] OTHER -> ""

\* The dict over the given keys, the Absent values left out.
DictOver(keys, iso, aperture, shutterspeed, ev, la, ls, li) ==
    [k \in {x \in keys :
                \/ x \notin {"iso", "aperture", "shutterspeed"}
                \/ Entry(x, iso, aperture, shutterspeed, ev, la, ls, li) # Absent} |->
        Entry(k, iso, aperture, shutterspeed, ev, la, ls, li)]

\* The record extract_form_data builds: the four values, the three lock
\* flags and the four empty outcome fields.
RequestRecord(iso, aperture, shutterspeed, ev, la, ls, li) ==
    DictOver({"iso", "aperture", "shutterspeed", "ev",
              "lock_aperture", "lock_shutter_speed", "lock_iso",
              "result", "result_key", "error", "warning"},
             iso, aperture, shutterspeed, ev, la, ls, li)

\* The dict a unit test passes to a calculate_* function: values only.
ValuesDict(keys, iso, aperture, shutterspeed, ev) ==
    DictOver(keys, iso, aperture, shutterspeed, ev, FALSE, FALSE, FALSE)

\* Scales and targets for direct calls of find_nearest: the scale of
\* tests/test_utils.py, a one-element scale, two scales with a tie in log
\* distance, and the three standard scales.
TestScale == <<Dec(14), Dec(20), Dec(28), Dec(40), Dec(56), Dec(80)>>

Scales ==
    { TestScale, <<Dec(28)>>, <<Dec(10), Dec(40)>>, <<Dec(40), Dec(10)>>, << >>,
      STANDARD_APERTURES, STANDARD_SHUTTER_SPEEDS, STANDARD_ISO_VALUES }

MaxTarget == 180

\* Targets in twentieths, from -0.1 to MaxTarget / 20 (3.35 = 67/20), and the
\* very large target 100 of tests/test_utils.py.
Targets == {Real(Rat(k, 20)) : k \in (-2)..MaxTarget} \cup {Real(Int2Rat(100))}

\* Arguments for direct calls of to_fraction: every standard shutter speed,
\* the 999 of tests/test_utils.py and 1/128 s, the exact Sunny-16 time.
ShutterArguments ==
    {STANDARD_SHUTTER_SPEEDS[i] : i \in 1..Len(STANDARD_SHUTTER_SPEEDS)}
        \cup {Int2Rat(999), Rat(1, 128)}

\* The text of a form field that the browser did not submit.
NotSubmitted == <<"not submitted">>

\* What a browser can submit in the four value fields: nothing, the value of
\* an option of the page (a full stop such as 16.0, 5.6, 0.008 = 1/125, 0.5,
\* 100, or a third stop such as 6.3, 0.01 = 1/100, 125), and text that is no
\* number of the field's type.
ApertureTexts ==
    {NotSubmitted, <<"1", "6", ".", "0">>, <<"5", ".", "6">>, <<"6", ".", "3">>,
     <<"a", "b", "c">>}

ShutterTexts ==
    {NotSubmitted, <<"0", ".", "0", "0", "8">>, <<"0", ".", "5">>, <<"0", ".", "0", "1">>,
     <<"1", "/", "1", "2", "5">>}

IsoTexts == {NotSubmitted, <<"1", "0", "0">>, <<"1", "2", "5">>, <<"1", "0", "0", ".", "5">>}

EvTexts == {NotSubmitted, <<"1", "5">>, <<"x">>}

StopTexts == {NotSubmitted, <<"f", "u", "l", "l">>, <<"t", "h", "i", "r", "d">>}

\* A checkbox is submitted (as "on") when it is ticked.
Checkbox(ticked) == IF ticked THEN <<"o", "n">> ELSE NotSubmitted

\* request.form: the submitted fields only.
FormOf(fields) == [k \in {f \in DOMAIN fields : fields[f] # NotSubmitted} |-> fields[k]]

-----------------------------------------------------------------------------
(* The state machine: a caller invoking the functions of the program *)

Init ==
    /\ config = Catalog
    /\ pc = "idle"
    /\ op = "none"
    /\ input = << >>
    /\ output = Return(None)

\* A call whose full-stop filtering is done in place on the catalog's list
\* (del ISO_VALUES[...] in place of the slice ISO_VALUES[::3]).
Call_filtering_in_place(fn, args, outcome) ==
    /\ pc = "idle"
    /\ pc' = "done"
    /\ op' = fn
    /\ input' = args
    /\ output' = outcome
    /\ config' = [config EXCEPT !.ISO_VALUES = EveryNth(@, FULL_STOP_INTERVAL)]

Call(fn, args, outcome) ==
    /\ pc = "idle"
    /\ pc' = "done"
    /\ op' = fn
    /\ input' = args
    /\ output' = outcome
    /\ UNCHANGED config

CallFindNearest ==
    /\ pc = "idle"
    /\ \E S \in Scales, t \in Targets :
        Call("find_nearest", [possible_values |-> S, target_value |-> t],
             find_nearest(S, t))

CallCalculateAperture ==
    /\ pc = "idle"
    /\ \E iso \in IsoInputs, ev \in EvInputs, s \in ShutterInputs :
        LET data == ValuesDict({"iso", "ev", "shutterspeed"}, iso, Absent, s, ev)
        IN  Call("calculate_aperture", data, calculate_aperture(data))

CallCalculateShutterSpeed ==
    /\ pc = "idle"
    /\ \E a \in ApertureInputs, iso \in IsoInputs, ev \in EvInputs :
        LET data == ValuesDict({"aperture", "iso", "ev"}, iso, a, Absent, ev)
        IN  Call("calculate_shutter_speed", data, calculate_shutter_speed(data))

CallCalculateIso ==
    /\ pc = "idle"
    /\ \E a \in ApertureInputs, s \in ShutterInputs, ev \in EvInputs :
        LET data == ValuesDict({"aperture", "shutterspeed", "ev"}, Absent, a, s, ev)
        IN  Call("calculate_iso", data, calculate_iso(data))

CallValidateLocks ==
    /\ pc = "idle"
    /\ \E la \in BOOLEAN, ls \in BOOLEAN, li \in BOOLEAN :
        LET data == [lock_aperture |-> la, lock_shutter_speed |-> ls, lock_iso |-> li]
        IN  Call("validate_locks", data, validate_locks(data))

CallPerformCalculation ==
    /\ pc = "idle"
    /\ \E iso \in IsoInputs, a \in ApertureInputs, s \in ShutterInputs, ev \in EvInputs,
       la \in BOOLEAN, ls \in BOOLEAN, li \in BOOLEAN :
        LET data == RequestRecord(iso, a, s, ev, la, ls, li)
        IN  Call("perform_calculation", data, perform_calculation(data))

CallProcessCalculation ==
    /\ pc = "idle"
    /\ \E iso \in IsoInputs, a \in ApertureInputs, s \in ShutterInputs, ev \in EvInputs,
       la \in BOOLEAN, ls \in BOOLEAN, li \in BOOLEAN :
        LET data == RequestRecord(iso, a, s, ev, la, ls, li)
        IN  Call("process_calculation", data, process_calculation(data))

CallToFraction ==
    /\ pc = "idle"
    /\ \E shutter_speed \in ShutterArguments :
        Call("to_fraction", shutter_speed, to_fraction(shutter_speed))

\* A GET or POST request to the page.
CallSunny16Calculator ==
    /\ pc = "idle"
    /\ \E method \in {"GET", "POST"}, a \in ApertureTexts, s \in ShutterTexts,
       i \in IsoTexts, e \in EvTexts, stop \in StopTexts,
       la \in BOOLEAN, ls \in BOOLEAN, li \in BOOLEAN :
        LET request ==
                [method |-> method,
                 form |-> FormOf([aperture |-> a, shutterspeed |-> s, iso |-> i, ev |-> e,
                                  stop_increment |-> stop,
                                  lock_aperture |-> Checkbox(la),
                                  lock_shutterspeed |-> Checkbox(ls),
                                  lock_iso |-> Checkbox(li)])]
        IN  Call("sunny16_calculator", request, sunny16_calculator(request))

\* The caller takes the outcome and is ready for its next call.
NextCall ==
    /\ pc = "done"
    /\ pc' = "idle"
    /\ op' = "none"
    /\ input' = << >>
    /\ output' = Return(None)
    /\ UNCHANGED config

Next ==
    \/ CallFindNearest
    \/ CallCalculateAperture
    \/ CallCalculateShutterSpeed
    \/ CallCalculateIso
    \/ CallValidateLocks
    \/ CallPerformCalculation
    \/ CallProcessCalculation
    \/ CallToFraction
    \/ CallSunny16Calculator
    \/ NextCall

Spec == Init /\ [][Next]_vars

-----------------------------------------------------------------------------
(* The requests a user can select on the page *)

\* The values of a list.
Values(list) == {list[i] : i \in 1..Len(list)}

\* The first and the last entry of a list.
Ends(list) == {list[1], list[Len(list)]}

\* The values the page offers for a scale under the default stop choice
\* 'full': every FULL_STOP_INTERVAL-th entry, from the first.
FullStops(list) == Values(EveryNth(list, FULL_STOP_INTERVAL))

\* The largest ISO taken as a locked value when the shutter speed is computed:
\* with ISO 25600 at ev 16 the exact time, 1/(2^24 * 25) * 49 s for f/1.4,
\* has log keys beyond 32-bit integers.
MaxLockedIso == 12800

\* perform_calculation on a record as the page submits it under the default
\* stop choice: every value is an option of its dropdown (the full stops of
\* the UI scales, the keys of LIGHT_CONDITIONS) and exactly two locks are
\* ticked. The two locked variables range over their options, the unlocked
\* one over the ends of its scale.
CallPerformSelectable ==
    /\ pc = "idle"
    /\ \E ev \in DOMAIN config.LIGHT_CONDITIONS :
        \/ \E iso \in FullStops(config.ISO_VALUES),
              s \in FullStops(config.SHUTTER_SPEEDS), a \in Ends(config.APERTURES) :
                LET data == RequestRecord(iso, a, s, ev, FALSE, TRUE, TRUE)
                IN  Call("perform_calculation", data, perform_calculation(data))
        \/ \E iso \in {i \in FullStops(config.ISO_VALUES) : i.n <= MaxLockedIso * i.d},
              a \in FullStops(config.APERTURES), s \in Ends(config.SHUTTER_SPEEDS) :
                LET data == RequestRecord(iso, a, s, ev, TRUE, FALSE, TRUE)
                IN  Call("perform_calculation", data, perform_calculation(data))
        \/ \E a \in FullStops(config.APERTURES),
              s \in FullStops(config.SHUTTER_SPEEDS), iso \in Ends(config.ISO_VALUES) :
                LET data == RequestRecord(iso, a, s, ev, TRUE, TRUE, FALSE)
                IN  Call("perform_calculation", data, perform_calculation(data))

NextSelectable ==
    \/ CallPerformSelectable
    \/ NextCall

SpecSelectable == Init /\ [][NextSelectable]_vars

-----------------------------------------------------------------------------
(* Vocabulary of the properties *)

RatLeq(x, y) == ~RatLess(y, x)

\* The dict holds a positive number under each of the keys.
HasPositive(data, keys) == \A k \in keys : k \in DOMAIN data /\ data[k].n > 0

\* x^root, so that x and the real t = q^(1/root) compare as x^root and q do.
Raised(x, t) == IF t.root = 2 THEN RatMul(x, x) ELSE x

\* y is strictly nearer to t than x is, in |log2(.) - log2(t)|, for positive
\* x, y, t: on one side of t the nearer is the one towards t; across t, y is
\* nearer iff the ratio between y and t is smaller than that between x and t.
LogCloser(y, x, t) ==
    LET yy == Raised(y, t)
        xx == Raised(x, t)
    IN  IF RatLeq(t.q, yy) /\ RatLeq(t.q, xx) THEN RatLess(yy, xx)
        ELSE IF RatLeq(yy, t.q) /\ RatLeq(xx, t.q) THEN RatLess(xx, yy)
        ELSE IF RatLess(yy, t.q) THEN RatLess(RatDiv(t.q, yy), RatDiv(xx, t.q))
        ELSE RatLess(RatDiv(yy, t.q), RatDiv(t.q, xx))

\* Position i holds the first of the elements of S nearest to t.
IsFirstLogNearest(S, i, t) ==
    /\ i \in 1..Len(S)
    /\ \A j \in 1..Len(S) : ~LogCloser(S[j], S[i], t)
    /\ \A j \in 1..(i - 1) : LogCloser(S[i], S[j], t)

\* The stop that t snaps to on scale S.
SnappedStop(S, t) == S[CHOOSE i \in 1..Len(S) : IsFirstLogNearest(S, i, t)]

\* The exact values of the three exposure equations.
ExactApertureSquared(data) ==
    RatMul(RatMul(Rat(data["iso"].n, 100 * data["iso"].d), TwoToThe(data["ev"])),
           data["shutterspeed"])

ExactShutterSpeed(data) ==
    RatDiv(RatMul(data["aperture"], data["aperture"]),
           RatMul(TwoToThe(data["ev"]), Rat(data["iso"].n, 100 * data["iso"].d)))

ExactIso(data) ==
    RatDiv(RatDiv(RatMul(Int2Rat(100), RatMul(data["aperture"], data["aperture"])),
                  data["shutterspeed"]),
           TwoToThe(data["ev"]))

\* The tuple a calculate_* call returned is (False, text) / (True, value).
ReturnedWarning(text) ==
    /\ output.exc = ""
    /\ ~output.val.success
    /\ output.val.warning = text

ReturnedValue(value) ==
    /\ output.exc = ""
    /\ output.val.success
    /\ output.val.value = value

\* The outcome of a calculate_* call that classifies the number x (the exact
\* value, or the stop it snaps to) against the UI scale and, in range,
\* returns the stop M.
ClassifiedBy(isLow, isHigh, lowText, highText, M) ==
    IF isLow THEN ReturnedWarning(lowText)
    ELSE IF isHigh THEN ReturnedWarning(highText)
    ELSE ReturnedValue(M)

-----------------------------------------------------------------------------
(* Range classification of the three equations *)

ApertureCall ==
    /\ op = "calculate_aperture"
    /\ HasPositive(input, {"iso", "shutterspeed"})

\* C1 as stated: calculate_aperture classifies by the exact value
\* E = sqrt((iso/100) * 2^ev * shutterspeed): E < min(APERTURES) gives the
\* 'wider than available' warning, E > max(APERTURES) the 'narrower than
\* available' warning, and (True, value) is returned only when E is within
\* [min(APERTURES), max(APERTURES)].
C1_ClassifiesByExactAperture ==
    ApertureCall =>
        LET Q  == ExactApertureSquared(input)
            lo == SeqMin(config.APERTURES)
            hi == SeqMax(config.APERTURES)
        IN  /\ RatLess(Q, RatMul(lo, lo)) => ReturnedWarning(ApertureTooWide)
            /\ RatLess(RatMul(hi, hi), Q) => ReturnedWarning(ApertureTooNarrow)
            /\ (output.exc = "" /\ output.val.success) =>
                    RatLeq(RatMul(lo, lo), Q) /\ RatLeq(Q, RatMul(hi, hi))

\* C1 amended: calculate_aperture classifies by the snapped value M, the
\* standard stop nearest to E in log distance: M < min(APERTURES) gives the
\* 'wider than available' warning, M > max(APERTURES) the 'narrower than
\* available' warning, and otherwise (True, M) is returned, also when E itself
\* lies outside [min(APERTURES), max(APERTURES)].
C1_ClassifiesBySnappedAperture ==
    ApertureCall =>
        LET M == SnappedStop(config.STANDARD_APERTURES, Sqrt(ExactApertureSquared(input)))
        IN  ClassifiedBy(RatLess(M, SeqMin(config.APERTURES)),
                         RatLess(SeqMax(config.APERTURES), M),
                         ApertureTooWide, ApertureTooNarrow, M)

\* An exact aperture above max(APERTURES) that snaps into the UI range and is
\* returned as a value (iso 100, ev 16, 1/60 s: E = 33.05, returned 32.0).
C1_Witness ==
    /\ ApertureCall
    /\ RatLess(RatMul(SeqMax(config.APERTURES), SeqMax(config.APERTURES)),
               ExactApertureSquared(input))
    /\ ReturnedValue(SeqMax(config.APERTURES))

ShutterSpeedCall ==
    /\ op = "calculate_shutter_speed"
    /\ HasPositive(input, {"aperture", "iso"})

\* C2 as stated: calculate_shutter_speed classifies by the exact value
\* E = aperture^2 / (2^ev * iso/100): E < min(SHUTTER_SPEEDS) gives the 'faster
\* than available' warning, E > max(SHUTTER_SPEEDS) the 'slower than available'
\* warning, and (True, value) is returned only when E is within the UI range.
C2_ClassifiesByExactShutterSpeed ==
    ShutterSpeedCall =>
        LET E  == ExactShutterSpeed(input)
            lo == SeqMin(config.SHUTTER_SPEEDS)
            hi == SeqMax(config.SHUTTER_SPEEDS)
        IN  /\ RatLess(E, lo) => ReturnedWarning(ShutterTooFast)
            /\ RatLess(hi, E) => ReturnedWarning(ShutterTooSlow)
            /\ (output.exc = "" /\ output.val.success) => RatLeq(lo, E) /\ RatLeq(E, hi)

\* C2 amended: calculate_shutter_speed classifies by the snapped value M, the
\* standard stop nearest to E in log distance: M < min(SHUTTER_SPEEDS) gives
\* the 'faster than available' warning, M > max(SHUTTER_SPEEDS) the 'slower
\* than available' warning, and otherwise (True, M) is returned, also when E
\* itself lies outside the UI range.
C2_ClassifiesBySnappedShutterSpeed ==
    ShutterSpeedCall =>
        LET M == SnappedStop(config.STANDARD_SHUTTER_SPEEDS, Real(ExactShutterSpeed(input)))
        IN  ClassifiedBy(RatLess(M, SeqMin(config.SHUTTER_SPEEDS)),
                         RatLess(SeqMax(config.SHUTTER_SPEEDS), M),
                         ShutterTooFast, ShutterTooSlow, M)

\* An exact shutter speed below min(SHUTTER_SPEEDS) that snaps into the UI
\* range and is returned (aperture 1.0, iso 6400, ev 7: E = 1/8192 s,
\* returned 1/8000 s).
C2_Witness ==
    /\ ShutterSpeedCall
    /\ RatLess(ExactShutterSpeed(input), SeqMin(config.SHUTTER_SPEEDS))
    /\ ReturnedValue(SeqMin(config.SHUTTER_SPEEDS))

IsoCall ==
    /\ op = "calculate_iso"
    /\ HasPositive(input, {"aperture", "shutterspeed"})

\* C3 as stated: calculate_iso classifies by the exact value
\* E = 100 * (aperture^2 / shutterspeed) / 2^ev: E < min(ISO_VALUES) gives the
\* 'lower than available' warning, E > max(ISO_VALUES) the 'higher than
\* available' warning, and (True, value) is returned only when E is within
\* [min(ISO_VALUES), max(ISO_VALUES)].
C3_ClassifiesByExactIso ==
    IsoCall =>
        LET E  == ExactIso(input)
            lo == SeqMin(config.ISO_VALUES)
            hi == SeqMax(config.ISO_VALUES)
        IN  /\ RatLess(E, lo) => ReturnedWarning(IsoTooLow)
            /\ RatLess(hi, E) => ReturnedWarning(IsoTooHigh)
            /\ (output.exc = "" /\ output.val.success) => RatLeq(lo, E) /\ RatLeq(E, hi)

\* C3 amended: calculate_iso classifies by the snapped value M, the standard
\* stop nearest to E in log distance: M < min(ISO_VALUES) gives the 'lower than
\* available' warning, M > max(ISO_VALUES) the 'higher than available' warning,
\* and otherwise (True, M) is returned with M an integer, also when E itself
\* lies outside [min(ISO_VALUES), max(ISO_VALUES)].
C3_ClassifiesBySnappedIso ==
    IsoCall =>
        LET M == SnappedStop(config.STANDARD_ISO_VALUES, Real(ExactIso(input)))
        IN  /\ ClassifiedBy(RatLess(M, SeqMin(config.ISO_VALUES)),
                            RatLess(SeqMax(config.ISO_VALUES), M),
                            IsoTooLow, IsoTooHigh, M)
            /\ output.val.success => output.val.value.d = 1

\* An exact ISO below min(ISO_VALUES) that snaps into the UI range and is
\* returned (aperture 16, 1/125 s, ev 15: E = 97.66, returned 100).
C3_Witness ==
    /\ IsoCall
    /\ RatLess(ExactIso(input), SeqMin(config.ISO_VALUES))
    /\ ReturnedValue(SeqMin(config.ISO_VALUES))

-----------------------------------------------------------------------------
(* The nearest stop *)

\* A call of find_nearest on a non-empty scale of positive values with a
\* positive target.
FindNearestCall ==
    /\ op = "find_nearest"
    /\ Len(input.possible_values) > 0
    /\ \A i \in 1..Len(input.possible_values) : input.possible_values[i].n > 0
    /\ input.target_value.q.n > 0

\* C4: for every non-empty scale S of positive values and every target t > 0,
\* find_nearest(S, t) returns an element x of S whose |log2(x) - log2(t)| is
\* minimal over S, and of the elements that attain the minimum the one that
\* occurs first in S; the distance is the log distance, not the linear one:
\* for S = [1.4, 2.0, 2.8, 4.0, 5.6, 8.0] and t = 3.35 it returns 4.0, not 2.8.
C4_FindNearestLogMinimumFirst ==
    FindNearestCall =>
        /\ output.exc = ""
        /\ \E i \in 1..Len(input.possible_values) :
                /\ output.val = input.possible_values[i]
                /\ IsFirstLogNearest(input.possible_values, i, input.target_value)
        /\ (input.possible_values = TestScale /\ input.target_value = Real(Rat(67, 20)))
                => output.val = Dec(40)

\* The call of the test: t = 3.35 on the scale 1.4 .. 8.0, where 2.8 is the
\* nearer stop in linear distance (0.55 against 0.65) and 4.0 is returned.
C4_Witness ==
    /\ FindNearestCall
    /\ input.possible_values = TestScale
    /\ input.target_value = Real(Rat(67, 20))
    /\ RatLess(Rat(67 - 56, 20), Rat(80 - 67, 20))
    /\ output.val = Dec(40)

-----------------------------------------------------------------------------
(* The request record: locks, outcome fields, failures *)

\* The number of lock flags that are true.
LockCount(data) ==
    BoolToInt(data["lock_aperture"]) + BoolToInt(data["lock_shutter_speed"])
        + BoolToInt(data["lock_iso"])

\* The outcome fields of the record that hold something.
Populated(data) ==
    {f \in {"result", "warning", "error"} :
        IF f = "result" THEN data[f] # None ELSE data[f] # ""}

\* A call of perform_calculation on a record with exactly two locks and
\* empty outcome fields.
PerformCallTwoLocks ==
    /\ op = "perform_calculation"
    /\ LockCount(input) = 2
    /\ Populated(input) = {}

\* C5: for every request record that starts with result None, warning '' and
\* error '' and has exactly two of the three lock flags true,
\* perform_calculation returns with exactly one of result, warning, error
\* populated, never two and never none; a range warning leaves result None
\* and result_key empty.
C5_ExactlyOneOutcomeField ==
    PerformCallTwoLocks =>
        /\ output.exc = ""
        /\ Cardinality(Populated(output.val)) = 1
        /\ output.val["warning"] # "" =>
                output.val["result"] = None /\ output.val["result_key"] = ""

\* A request that ends in a range warning: the warning is the one field set.
C5_Witness ==
    /\ PerformCallTwoLocks
    /\ output.val["warning"] # ""
    /\ Populated(output.val) = {"warning"}

\* C6: validate_locks returns the empty string if and only if exactly two of
\* lock_aperture, lock_shutter_speed, lock_iso are true; for the lock counts
\* 0, 1 and 3 it returns the fixed message 'Please lock exactly two variables
\* to calculate the third.'.
C6_ValidateLocksExactlyTwo ==
    op = "validate_locks" =>
        /\ output.exc = ""
        /\ output.val = "" <=> LockCount(input) = 2
        /\ LockCount(input) \in {0, 1, 3} =>
                output.val = "Please lock exactly two variables to calculate the third."

\* All three variables locked: the message is returned.
C6_Witness ==
    /\ op = "validate_locks"
    /\ LockCount(input) = 3
    /\ output.val # ""

\* The functions of the Exposure Equation Engine.
ComputeFunctions == {"calculate_aperture", "calculate_shutter_speed", "calculate_iso"}

\* The calls of the outcome that entered one of the given functions, in order.
CallsOf(fns) ==
    LET Entered(f) == f \in fns
    IN  SelectSeq(output.calls, Entered)

\* C7: when the lock count is not exactly two, process_calculation never
\* invokes perform_calculation and no compute function runs: it sets
\* data['error'] to the validator's message and returns the record with every
\* other field (values, lock flags, result, result_key, warning) unchanged.
C7_WrongLockCountStopsBeforeCalculation ==
    (op = "process_calculation" /\ LockCount(input) # 2) =>
        /\ output.exc = ""
        /\ CallsOf(ComputeFunctions \cup {"perform_calculation"}) = << >>
        /\ output.calls = <<"process_calculation", "validate_locks">>
        /\ DOMAIN output.val = DOMAIN input
        /\ output.val["error"] = LockError
        /\ \A k \in DOMAIN input \ {"error"} : output.val[k] = input[k]

\* A request with one lock only, whose first unlocked variable could be
\* computed from the values it holds: the validator's message is returned.
C7_Witness ==
    /\ op = "process_calculation"
    /\ LockCount(input) = 1
    /\ HasPositive(input, {"iso", "aperture", "shutterspeed"})
    /\ output.val["error"] = LockError
    /\ output.val["result"] = None

\* The compute function and the label of the one unlocked variable of a
\* record with two locks.
ExpectedCompute(data) ==
    IF ~data["lock_aperture"] THEN <<"calculate_aperture", "Aperture">>
    ELSE IF ~data["lock_shutter_speed"] THEN <<"calculate_shutter_speed", "Shutter Speed">>
    ELSE <<"calculate_iso", "ISO">>

\* C8: for a request with exactly two lock flags true, perform_calculation
\* runs exactly one compute function, the one for the single unlocked
\* variable (lock_aperture false: calculate_aperture, lock_shutter_speed
\* false: calculate_shutter_speed, lock_iso false: calculate_iso), the other
\* two are not evaluated, and on success result_key is 'Aperture',
\* 'Shutter Speed' or 'ISO' respectively.
C8_OneComputeFunctionForTheUnlockedVariable ==
    (op = "perform_calculation" /\ LockCount(input) = 2) =>
        /\ CallsOf(ComputeFunctions) = <<ExpectedCompute(input)[1]>>
        /\ output.val["result"] # None =>
                output.val["result_key"] = ExpectedCompute(input)[2]

\* Aperture and ISO locked: the shutter speed alone is computed and labelled.
C8_Witness ==
    /\ op = "perform_calculation"
    /\ input["lock_aperture"] /\ ~input["lock_shutter_speed"] /\ input["lock_iso"]
    /\ CallsOf(ComputeFunctions) = <<"calculate_shutter_speed">>
    /\ output.val["result_key"] = "Shutter Speed"

\* C9: the direction of every range warning matches the side of the
\* violation.  calculate_aperture issues 'wider than available' only when the
\* computed aperture (the exact value and the stop it snaps to) is below the
\* UI minimum, and 'narrower than available' only when it is above the UI
\* maximum (ev 11, iso 100, 1/8000 s: wider; ev 16, iso 6400, 1 s: narrower);
\* calculate_shutter_speed issues 'faster than available' only when the
\* computed time is below the UI minimum and 'slower than available' only
\* when it is above the UI maximum; a warning outcome carries no value.
C9_WarningDirectionMatchesSide ==
    /\ op = "calculate_aperture" =>
        LET Q  == ExactApertureSquared(input)
            M  == SnappedStop(config.STANDARD_APERTURES, Sqrt(Q))
            lo == SeqMin(config.APERTURES)
            hi == SeqMax(config.APERTURES)
        IN  /\ ReturnedWarning(ApertureTooWide) =>
                    RatLess(Q, RatMul(lo, lo)) /\ RatLess(M, lo)
            /\ ReturnedWarning(ApertureTooNarrow) =>
                    RatLess(RatMul(hi, hi), Q) /\ RatLess(hi, M)
            /\ (input = [iso |-> Int2Rat(100), ev |-> 11, shutterspeed |-> OneOver(80000)])
                    => ReturnedWarning(ApertureTooWide)
            /\ (input = [iso |-> Int2Rat(6400), ev |-> 16, shutterspeed |-> Int2Rat(1)])
                    => ReturnedWarning(ApertureTooNarrow)
    /\ op = "calculate_shutter_speed" =>
        LET E  == ExactShutterSpeed(input)
            M  == SnappedStop(config.STANDARD_SHUTTER_SPEEDS, Real(E))
            lo == SeqMin(config.SHUTTER_SPEEDS)
            hi == SeqMax(config.SHUTTER_SPEEDS)
        IN  /\ ReturnedWarning(ShutterTooFast) => RatLess(E, lo) /\ RatLess(M, lo)
            /\ ReturnedWarning(ShutterTooSlow) => RatLess(hi, E) /\ RatLess(hi, M)
    /\ (op \in ComputeFunctions /\ output.exc = "" /\ ~output.val.success) =>
        /\ output.val.value = NoValue
        /\ output.val.warning \in {ApertureTooWide, ApertureTooNarrow, ShutterTooFast,
                                   ShutterTooSlow, IsoTooLow, IsoTooHigh}

\* The first example: ev 11, iso 100, 1/8000 s gives the 'wider' warning.
C9_Witness ==
    /\ op = "calculate_aperture"
    /\ input = [iso |-> Int2Rat(100), ev |-> 11, shutterspeed |-> OneOver(80000)]
    /\ ReturnedWarning(ApertureTooWide)
    /\ output.val.value = NoValue

\* C10: perform_calculation never propagates an exception to its caller: for
\* every input record (zero, negative or missing values included) a failure
\* raised during computation, snapping or formatting is converted into a
\* non-empty data['error'], with result left unset and warning left empty,
\* and the record is returned normally.
C10_FailuresBecomeErrorField ==
    op = "perform_calculation" =>
        /\ output.exc = ""
        /\ PerformTry(input).exc # "" =>
                /\ output.val["error"] # ""
                /\ output.val["result"] = None
                /\ output.val["result_key"] = ""
                /\ output.val["warning"] = ""

\* A division by zero in the selected equation, returned as an error field.
C10_Witness ==
    /\ op = "perform_calculation"
    /\ PerformTry(input).exc = "ZeroDivisionError"
    /\ output.exc = ""
    /\ output.val["error"] # ""

-----------------------------------------------------------------------------
(* The error text of a failed computation *)

\* C11: every computation failure caused by bad numeric input is surfaced by
\* perform_calculation as the generic invalid-input error, an error text of
\* the form 'Invalid input: ...', for a logarithm or sqrt domain error
\* (ValueError) and for a division by zero (ZeroDivisionError) alike.
C11_BadNumericInputIsInvalidInput ==
    (/\ op = "perform_calculation"
     /\ PerformTry(input).exc \in {"ValueError", "ZeroDivisionError"}) =>
        /\ output.exc = ""
        /\ output.val["error"] = "Invalid input: " \o PerformTry(input).msg

-----------------------------------------------------------------------------
(* Form values that are no numbers *)

\* A request with a submitted value that float() or int() rejects.
ConversionFails ==
    /\ op = "sunny16_calculator"
    /\ extract_form_data(input, config.DEFAULTS).exc # ""

\* C12: a submitted form value that cannot be converted to a number
\* (aperture, shutterspeed to float; iso, ev to int) surfaces as an 'invalid
\* input' error in the rendered result record: the conversion failure is
\* caught before it leaves the request handler, and no raw exception comes
\* out of sunny16_calculator.
C12_ConversionFailureIsRenderedAsError ==
    ConversionFails =>
        /\ output.exc = ""
        /\ output.val.data["error"] # ""

-----------------------------------------------------------------------------
(* Targets without a logarithm *)

\* C13: for every target <= 0 (zero or negative) and every non-empty scale,
\* find_nearest fails with an invalid-input error, a ValueError, and never
\* returns a scale element.
C13_NonPositiveTargetIsValueError ==
    (/\ op = "find_nearest"
     /\ Len(input.possible_values) > 0
     /\ input.target_value.q.n <= 0) =>
        /\ output.exc = "ValueError"
        /\ output.val = NoValue
        /\ \A i \in 1..Len(input.possible_values) : output.val # input.possible_values[i]

\* A zero target on the scale 1.4 .. 8.0: the call raises.
C13_Witness ==
    /\ op = "find_nearest"
    /\ input.possible_values = TestScale
    /\ input.target_value = Real(Int2Rat(0))
    /\ output.exc = "ValueError"

-----------------------------------------------------------------------------
(* Labels of the shutter speeds *)

\* The position of a value in a list that holds it.
PositionIn(value, list) == CHOOSE i \in 1..Len(list) : list[i] = value

\* to_fraction returned the label generated for its argument: "1" for one
\* second and only for it, otherwise the "1/<n>" label of the value; the
\* generated labels are pairwise distinct, so that the only value carrying
\* the returned label is the argument.
ReturnsItsLabel ==
    /\ output.exc = ""
    /\ output.val = ShutterLabel(input)
    /\ (output.val = "1") <=> (input = Int2Rat(1))
    /\ \A i, j \in 1..Len(generate_shutter_speed_labels) :
            generate_shutter_speed_labels[i] = generate_shutter_speed_labels[j] => i = j

C15_AbsentSpeedIsValueError ==
    (/\ op = "to_fraction"
     /\ ~IsIn(input, config.SHUTTER_SPEEDS)) =>
        /\ output.exc = "ValueError"
        /\ output.val = NoValue

\* to_fraction(999) raised ValueError.
C15_Witness ==
    /\ op = "to_fraction"
    /\ input = Int2Rat(999)
    /\ output.exc = "ValueError"

-----------------------------------------------------------------------------
(* Exact matches *)

\* C16: for every scale S of positive values and every x in S,
\* find_nearest(S, x) returns x itself; and for every t > 0, resolving the
\* resolved value again returns it: find_nearest(S, find_nearest(S, t)) =
\* find_nearest(S, t).
C16_ExactMatchIdempotence ==
    FindNearestCall =>
        /\ (/\ input.target_value.root = 1
            /\ IsIn(input.target_value.q, input.possible_values)) =>
                /\ output.exc = ""
                /\ output.val = input.target_value.q
        /\ output.exc = ""
        /\ find_nearest(input.possible_values, Real(output.val)).exc = ""
        /\ find_nearest(input.possible_values, Real(output.val)).val = output.val

\* find_nearest(STANDARD_APERTURES, 5.6) returned 5.6, an inner element.
C16_Witness ==
    /\ op = "find_nearest"
    /\ input.possible_values = STANDARD_APERTURES
    /\ input.target_value = Real(Dec(56))
    /\ output.val = Dec(56)

-----------------------------------------------------------------------------
(* The catalog's scales *)

StrictlyAscending(s) == \A i \in 1..(Len(s) - 1) : RatLess(s[i], s[i + 1])

StrictlyDescending(s) == \A i \in 1..(Len(s) - 1) : RatLess(s[i + 1], s[i])

Ascending(s) == \A i \in 1..(Len(s) - 1) : RatLeq(s[i], s[i + 1])

NoDuplicates(s) == \A i, j \in 1..Len(s) : s[i] = s[j] => i = j

\* Every element of the UI scale is an element of the standard scale, and
\* neither scale holds a value twice.
UiWithinStandard(ui, standard) ==
    /\ \A i \in 1..Len(ui) : IsIn(ui[i], standard)
    /\ NoDuplicates(ui)
    /\ NoDuplicates(standard)

\* C17 as stated: for each of ISO, aperture and shutter speed, every element
\* of the UI scale is an element of the standard scale, both scales are
\* sorted in ascending order, and neither contains a duplicate.
C17_ScalesAscending ==
    /\ UiWithinStandard(config.ISO_VALUES, config.STANDARD_ISO_VALUES)
    /\ UiWithinStandard(config.APERTURES, config.STANDARD_APERTURES)
    /\ UiWithinStandard(config.SHUTTER_SPEEDS, config.STANDARD_SHUTTER_SPEEDS)
    /\ Ascending(config.ISO_VALUES) /\ Ascending(config.STANDARD_ISO_VALUES)
    /\ Ascending(config.APERTURES) /\ Ascending(config.STANDARD_APERTURES)
    /\ Ascending(config.SHUTTER_SPEEDS) /\ Ascending(config.STANDARD_SHUTTER_SPEEDS)

\* C17 as the code has it: for each of the three quantities every element of
\* the UI scale is an element of the standard scale and neither scale holds
\* a duplicate; the ISO and aperture scales are sorted in ascending order,
\* the shutter-speed scales in descending order of their value in seconds
\* (from the slowest speed to the fastest).
C17_ScalesOrdered ==
    /\ UiWithinStandard(config.ISO_VALUES, config.STANDARD_ISO_VALUES)
    /\ UiWithinStandard(config.APERTURES, config.STANDARD_APERTURES)
    /\ UiWithinStandard(config.SHUTTER_SPEEDS, config.STANDARD_SHUTTER_SPEEDS)
    /\ StrictlyAscending(config.ISO_VALUES)
    /\ StrictlyAscending(config.STANDARD_ISO_VALUES)
    /\ StrictlyAscending(config.APERTURES)
    /\ StrictlyAscending(config.STANDARD_APERTURES)
    /\ StrictlyDescending(config.SHUTTER_SPEEDS)
    /\ StrictlyDescending(config.STANDARD_SHUTTER_SPEEDS)

\* The catalog as a finished page request sees it: 40 of the 46 shutter
\* speeds in the UI scale, led by 1 s, while the standard scale is led by 2 s.
C17_Witness ==
    /\ pc = "done"
    /\ op = "sunny16_calculator"
    /\ Len(config.SHUTTER_SPEEDS) = 40
    /\ Len(config.STANDARD_SHUTTER_SPEEDS) = 46
    /\ config.SHUTTER_SPEEDS[1] = Int2Rat(1)
    /\ config.STANDARD_SHUTTER_SPEEDS[1] = Int2Rat(2)
    /\ config.SHUTTER_SPEEDS[40] = Rat(1, 8000)

-----------------------------------------------------------------------------
(* The catalog is read-only *)

\* What the operation fn returns for the arguments args in the current state.
Outcome(fn, args) ==
    CASE fn = "find_nearest" -> find_nearest(args.possible_values, args.target_value)
      [] fn = "to_fraction" -> to_fraction(args)
      [] fn = "calculate_aperture" -> calculate_aperture(args)
      [] fn = "calculate_shutter_speed" -> calculate_shutter_speed(args)
      [] fn = "calculate_iso" -> calculate_iso(args)
      [] fn = "validate_locks" -> validate_locks(args)
      [] fn = "perform_calculation" -> perform_calculation(args)
      [] fn = "process_calculation" -> process_calculation(args)
      [] fn = "sunny16_calculator" -> sunny16_calculator(args)

-----------------------------------------------------------------------------
(* The Sunny-16 baseline *)

\* The dict holds the values of the Sunny-16 baseline under the given keys.
Baseline(data, keys) ==
    /\ keys \subseteq DOMAIN data
    /\ "iso" \in keys => data["iso"] = Int2Rat(100)
    /\ "ev" \in keys => data["ev"] = 15
    /\ "shutterspeed" \in keys => data["shutterspeed"] = OneOver(1250)
    /\ "aperture" \in keys => data["aperture"] = Dec(160)

\* The locks of the dict leave only the variable of the given lock key unlocked.
OnlyUnlocked(data, lock) ==
    \A k \in {"lock_aperture", "lock_shutter_speed", "lock_iso"} :
        data[k] = (k # lock)

\* C19: with iso = 100, ev = 15, shutterspeed = 1/125 calculate_aperture
\* returns (True, 16.0), and perform_calculation with only aperture unlocked
\* sets result_key = 'Aperture' and result to exactly the string 'f/16'.
C19_ApertureBaselineIsF16 ==
    /\ (/\ op = "calculate_aperture"
        /\ Baseline(input, {"iso", "ev", "shutterspeed"})) =>
            /\ output.exc = ""
            /\ output.val.success
            /\ output.val.value = Dec(160)
    /\ (/\ op = "perform_calculation"
        /\ Baseline(input, {"iso", "ev", "shutterspeed"})
        /\ OnlyUnlocked(input, "lock_aperture")) =>
            /\ output.exc = ""
            /\ output.val["result_key"] = "Aperture"
            /\ output.val["result"] = Str("f/16")


\* C20: with aperture = 16, iso = 100, ev = 15 (exact value 1/128 s)
\* calculate_shutter_speed returns (True, 1/125), and perform_calculation with
\* only shutter speed unlocked sets result_key = 'Shutter Speed' and
\* result = '1/125'.
C20_ShutterSpeedBaselineIs125th ==
    /\ (/\ op = "calculate_shutter_speed"
        /\ Baseline(input, {"aperture", "iso", "ev"})) =>
            /\ ExactShutterSpeed(input) = Rat(1, 128)
            /\ output.exc = ""
            /\ output.val.success
            /\ output.val.value = Rat(1, 125)
    /\ (/\ op = "perform_calculation"
        /\ Baseline(input, {"aperture", "iso", "ev"})
        /\ OnlyUnlocked(input, "lock_shutter_speed")) =>
            /\ output.exc = ""
            /\ output.val["result_key"] = "Shutter Speed"
            /\ output.val["result"] = Str("1/125")

\* perform_calculation on the baseline with only shutter speed unlocked has
\* returned a result.
C20_Witness ==
    /\ op = "perform_calculation"
    /\ Baseline(input, {"aperture", "iso", "ev"})
    /\ OnlyUnlocked(input, "lock_shutter_speed")
    /\ output.exc = ""
    /\ output.val["result_key"] = "Shutter Speed"
    /\ "to_fraction" \in {output.calls[i] : i \in 1..Len(output.calls)}

-----------------------------------------------------------------------------
(* The ISO baseline *)

\* The dict holds aperture 16, shutter speed 1/125 s and ev 11.
IsoBaseline(data) ==
    /\ {"aperture", "shutterspeed", "ev"} \subseteq DOMAIN data
    /\ data["aperture"] = Dec(160)
    /\ data["shutterspeed"] = OneOver(1250)
    /\ data["ev"] = 11

\* C21: with aperture = 16, shutterspeed = 1/125, ev = 11 (exact value
\* 1562.5) calculate_iso returns (True, 1600) with an integer value, and
\* perform_calculation with only ISO unlocked sets result_key = 'ISO' and
\* result = 1600; every successful calculate_iso result is a positive integer.
C21_IsoBaselineIs1600 ==
    /\ (op = "calculate_iso" /\ IsoBaseline(input)) =>
            /\ ExactIso(input) = Rat(3125, 2)
            /\ output.exc = ""
            /\ output.val.success
            /\ output.val.value = Int2Rat(1600)
    /\ (/\ op = "perform_calculation"
        /\ IsoBaseline(input)
        /\ OnlyUnlocked(input, "lock_iso")) =>
            /\ output.exc = ""
            /\ output.val["result_key"] = "ISO"
            /\ output.val["result"] = IntVal(1600)
    /\ (op = "calculate_iso" /\ output.exc = "" /\ output.val.success) =>
            /\ output.val.value.d = 1
            /\ output.val.value.n > 0

\* calculate_iso on the baseline has returned a value.
C21_Witness ==
    /\ op = "calculate_iso"
    /\ IsoBaseline(input)
    /\ output.exc = ""
    /\ output.val.success

-----------------------------------------------------------------------------
(* The texts of the ISO warnings *)

\* The text holds the part as a substring.
Contains(text, part) ==
    \E i \in 1..(Len(text) - Len(part) + 1) :
        SubSeq(text, i, i + Len(part) - 1) = part

\* C22: whenever calculate_iso returns the out-of-range-low outcome its text
\* contains 'lower than available' and 'narrower aperture (larger f-number)
\* or a faster', and whenever it returns the out-of-range-high outcome its
\* text contains 'higher than available' and 'wider aperture (smaller
\* f-number) or a slower'.
C22_IsoWarningsCarryFNumberHints ==
    (op = "calculate_iso" /\ output.exc = "" /\ ~output.val.success) =>
        /\ \/ Contains(output.val.warning, "lower than available")
           \/ Contains(output.val.warning, "higher than available")
        /\ Contains(output.val.warning, "lower than available") =>
                Contains(output.val.warning,
                         "narrower aperture (larger f-number) or a faster")
        /\ Contains(output.val.warning, "higher than available") =>
                Contains(output.val.warning,
                         "wider aperture (smaller f-number) or a slower")

-----------------------------------------------------------------------------
(* The label lookup inside perform_calculation *)

\* C23: within perform_calculation, to_fraction is only ever called with an
\* already-snapped value present in the scale it indexes, so its lookup never
\* fails there: whenever calculate_shutter_speed returns (True, v), v is an
\* element of SHUTTER_SPEEDS and to_fraction(v) returns a label without
\* raising.
C23_LabelLookupNeverFails ==
    /\ (op = "calculate_shutter_speed" /\ output.exc = "" /\ output.val.success) =>
            /\ IsIn(output.val.value, config.SHUTTER_SPEEDS)
            /\ to_fraction(output.val.value).exc = ""
            /\ to_fraction(output.val.value).val = ShutterLabel(output.val.value)
    /\ (/\ op = "perform_calculation"
        /\ "to_fraction" \in {output.calls[i] : i \in 1..Len(output.calls)}) =>
            /\ output.exc = ""
            /\ output.val["error"] = ""
            /\ output.val["result_key"] = "Shutter Speed"
            /\ \E i \in 1..Len(config.SHUTTER_SPEEDS) :
                    output.val["result"] = Str(generate_shutter_speed_labels[i])

\* perform_calculation has called to_fraction for a snapped value other than
\* the baseline's 1/125 s, and no error was set.
C23_Witness ==
    /\ op = "perform_calculation"
    /\ "to_fraction" \in {output.calls[i] : i \in 1..Len(output.calls)}
    /\ output.val["result"] # Str("1/125")
    /\ output.val["error"] = ""

-----------------------------------------------------------------------------
(* Targets outside the scale *)

\* C24: for a scale S sorted ascending and any target t with 0 < t <= min(S)
\* find_nearest returns min(S), and for any t >= max(S) it returns max(S):
\* on S = [1.4, ..., 8.0], t = 0.1 gives 1.4 and t = 100 gives 8.0; on the
\* single-element scale [2.8] every t > 0 gives 2.8.
C24_FindNearestClamps ==
    (/\ FindNearestCall
     /\ StrictlyAscending(input.possible_values)
     /\ input.target_value.root = 1) =>
        /\ RatLeq(input.target_value.q, input.possible_values[1]) =>
                output.val = input.possible_values[1]
        /\ RatLeq(input.possible_values[Len(input.possible_values)],
                  input.target_value.q) =>
                output.val = input.possible_values[Len(input.possible_values)]
        /\ (input.possible_values = TestScale /\ input.target_value = Real(Rat(1, 10)))
                => output.val = Dec(14)
        /\ (input.possible_values = TestScale /\ input.target_value = Real(Int2Rat(100)))
                => output.val = Dec(80)
        /\ input.possible_values = <<Dec(28)>> => output.val = Dec(28)

\* The very large target of the test: find_nearest([1.4, ..., 8.0], 100)
\* returned 8.0.
C24_Witness ==
    /\ op = "find_nearest"
    /\ input.possible_values = TestScale
    /\ input.target_value = Real(Int2Rat(100))
    /\ output.val = Dec(80)

-----------------------------------------------------------------------------
(* The order of request handling *)

\* The positions of the outcome's call trace at which fn was entered.
Entries(fn) == {i \in 1..Len(output.calls) : output.calls[i] = fn}

\* Every entry of fn in the outcome's call trace comes after an entry of
\* the function before.
Precedes(before, fn) ==
    \A i \in Entries(fn) : \E j \in Entries(before) : j < i

\* The request's record as the page shows it holds no result, warning or
\* error: the fields are as extract_form_data initialised them.
OutcomeFieldsEmpty(data) ==
    /\ data["result"] = None
    /\ data["result_key"] = ""
    /\ data["warning"] = ""
    /\ data["error"] = ""

\* C25: in sunny16_calculator prepare_form_options always runs first; on a
\* GET request process_calculation is never invoked (no validation, no
\* computation, result, warning and error stay empty); on a POST request
\* process_calculation is invoked exactly once, and within it validate_locks
\* always precedes perform_calculation.
C25_RequestHandlingOrder ==
    op = "sunny16_calculator" =>
        /\ Len(output.calls) >= 2
        /\ output.calls[1] = "sunny16_calculator"
        /\ output.calls[2] = "prepare_form_options"
        /\ input.method = "GET" =>
                /\ Entries("process_calculation") = {}
                /\ Entries("validate_locks") = {}
                /\ Entries("perform_calculation") = {}
                /\ CallsOf(ComputeFunctions) = << >>
                /\ output.exc = "" => OutcomeFieldsEmpty(output.val.data)
        /\ input.method = "POST" =>
                /\ Cardinality(Entries("process_calculation")) = 1
                /\ Precedes("process_calculation", "validate_locks")
                /\ Precedes("validate_locks", "perform_calculation")

-----------------------------------------------------------------------------
(* Results are selectable values *)

\* A calculate_* function has returned (True, value).
Succeeded(fn) ==
    /\ op = fn
    /\ output.exc = ""
    /\ output.val.success

\* C26: every value returned with success = True is a selectable UI value:
\* calculate_aperture's value is an element of APERTURES,
\* calculate_shutter_speed's an element of SHUTTER_SPEEDS and calculate_iso's
\* an element of ISO_VALUES; the three lowest and three highest entries of
\* each standard scale are never returned as results.
C26_ResultsAreUiValues ==
    /\ Succeeded("calculate_aperture") =>
            /\ IsIn(output.val.value, config.APERTURES)
            /\ ~IsIn(output.val.value, SubSeq(config.STANDARD_APERTURES, 1, 3))
            /\ ~IsIn(output.val.value,
                     SubSeq(config.STANDARD_APERTURES,
                            Len(config.STANDARD_APERTURES) - 2,
                            Len(config.STANDARD_APERTURES)))
    /\ Succeeded("calculate_shutter_speed") =>
            /\ IsIn(output.val.value, config.SHUTTER_SPEEDS)
            /\ ~IsIn(output.val.value, SubSeq(config.STANDARD_SHUTTER_SPEEDS, 1, 3))
            /\ ~IsIn(output.val.value,
                     SubSeq(config.STANDARD_SHUTTER_SPEEDS,
                            Len(config.STANDARD_SHUTTER_SPEEDS) - 2,
                            Len(config.STANDARD_SHUTTER_SPEEDS)))
    /\ Succeeded("calculate_iso") =>
            /\ IsIn(output.val.value, config.ISO_VALUES)
            /\ ~IsIn(output.val.value, SubSeq(config.STANDARD_ISO_VALUES, 1, 3))
            /\ ~IsIn(output.val.value,
                     SubSeq(config.STANDARD_ISO_VALUES,
                            Len(config.STANDARD_ISO_VALUES) - 2,
                            Len(config.STANDARD_ISO_VALUES)))

\* calculate_iso has returned the end stop 100 of the UI scale for positive
\* inputs whose exact value lies below it, nearer to 100 than to 80.
C26_Witness ==
    /\ Succeeded("calculate_iso")
    /\ HasPositive(input, {"aperture", "shutterspeed"})
    /\ output.val.value = SeqMin(config.ISO_VALUES)
    /\ RatLess(ExactIso(input), SeqMin(config.ISO_VALUES))

-----------------------------------------------------------------------------
(* Selectable requests never end in an error *)

\* The record holds values of the UI scales, an ev of the light conditions
\* and exactly two locks.
Selectable(data) ==
    /\ {"iso", "aperture", "shutterspeed", "ev"} \subseteq DOMAIN data
    /\ IsIn(data["iso"], config.ISO_VALUES)
    /\ IsIn(data["aperture"], config.APERTURES)
    /\ IsIn(data["shutterspeed"], config.SHUTTER_SPEEDS)
    /\ data["ev"] \in DOMAIN config.LIGHT_CONDITIONS
    /\ LockCount(data) = 2

\* C27: for every request whose iso, aperture and shutterspeed are values of
\* the UI scales, whose ev is one of 11..16 and which has exactly two locks
\* set, perform_calculation ends with a result or a warning and never with an
\* error: no domain error, division by zero or failed label lookup is
\* reachable from selectable inputs.
C27_SelectableRequestsNeverFail ==
    (op = "perform_calculation" /\ Selectable(input)) =>
        /\ DOMAIN config.LIGHT_CONDITIONS = 11..16
        /\ output.exc = ""
        /\ output.val["error"] = ""
        /\ Cardinality(Populated(output.val)) = 1
        /\ Populated(output.val) \subseteq {"result", "warning"}

\* The fastest shutter speed the page can show, computed from selectable
\* values: the label lookup was made and gave '1/8000'.
C27_Witness ==
    /\ op = "perform_calculation"
    /\ Selectable(input)
    /\ output.val["result_key"] = "Shutter Speed"
    /\ output.val["result"] = Str("1/8000")

-----------------------------------------------------------------------------
(* Full-stop snapping of the submitted values *)

\* The three variables that have a scale.
ScaleVariables == {"iso", "aperture", "shutterspeed"}

\* Every FULL_STOP_INTERVAL-th entry of the variable's UI scale, from its
\* first entry.
FullStopList(key) ==
    CASE key = "iso" -> EveryNth(config.ISO_VALUES, FULL_STOP_INTERVAL)
      [] key = "aperture" -> EveryNth(config.APERTURES, FULL_STOP_INTERVAL)
      [] key = "shutterspeed" -> EveryNth(config.SHUTTER_SPEEDS, FULL_STOP_INTERVAL)

\* The options prepare_form_options returned for the variable.
OptionsFor(options, key) ==
    CASE key = "iso" -> options.iso_options
      [] key = "aperture" -> options.aperture_options
      [] key = "shutterspeed" -> options.shutter_speed_options

\* A page request whose form values converted: prepare_form_options returned.
Prepared ==
    /\ op = "sunny16_calculator"
    /\ prepare_form_options(input).exc = ""

\* C28: after prepare_form_options with stop_choice = 'full', data['iso'],
\* data['aperture'] and data['shutterspeed'] are each a member of the
\* corresponding full-stop option list (every 3rd entry of the UI scale from
\* its first entry), whatever numeric values were submitted: a submitted
\* non-full-stop value is replaced by the default (100, 16.0, 1/125), a
\* full-stop value is kept, and each default is itself a member of its
\* full-stop list; with a stop_choice other than 'full' the submitted values
\* are left as extracted.
C28_FullStopSnapping ==
    op = "sunny16_calculator" =>
        \A p \in {prepare_form_options(input)},
           d \in {extract_form_data(input, config.DEFAULTS)} :
            p.exc = "" =>
                /\ config.DEFAULTS.iso = Int2Rat(100)
                /\ config.DEFAULTS.aperture = Dec(160)
                /\ config.DEFAULTS.shutterspeed = Rat(1, 125)
                /\ FULL_STOP_INTERVAL = 3
                /\ \A k \in ScaleVariables : IsIn(config.DEFAULTS[k], FullStopList(k))
                /\ p.val.stop_choice = "full" =>
                        \A k \in ScaleVariables :
                            /\ OptionValues(OptionsFor(p.val.options, k)) = FullStopList(k)
                            /\ IsIn(p.val.data[k], FullStopList(k))
                            /\ p.val.data[k] = IF IsIn(d.val[k], FullStopList(k))
                                               THEN d.val[k]
                                               ELSE config.DEFAULTS[k]
                /\ p.val.stop_choice # "full" => p.val.data = d.val
                /\ (output.exc = "" /\ input.method = "GET") =>
                        output.val.data = p.val.data

\* A full-stop page on which the third stops ISO 125, f/6.3 and 1/100 s were
\* submitted: all three were replaced by the defaults.
C28_Witness ==
    /\ Prepared
    /\ input.method = "GET"
    /\ prepare_form_options(input).val.stop_choice = "full"
    /\ extract_form_data(input, config.DEFAULTS).val["iso"] = Int2Rat(125)
    /\ extract_form_data(input, config.DEFAULTS).val["aperture"] = Dec(63)
    /\ extract_form_data(input, config.DEFAULTS).val["shutterspeed"] = Rat(1, 100)
    /\ output.val.data["iso"] = Int2Rat(100)
    /\ output.val.data["aperture"] = Dec(160)
    /\ output.val.data["shutterspeed"] = Rat(1, 125)

-----------------------------------------------------------------------------
(* The fields perform_calculation writes *)

\* The fields of the record that carry the outcome.
OutcomeFields == {"result", "result_key", "warning", "error"}

\* C29: perform_calculation writes only the fields result, result_key,
\* warning and error of the record: iso, aperture, shutterspeed, ev and the
\* three lock flags are the same after the call as before it on every path
\* (success, warning, error), no field is removed and no other field added,
\* so the computed value is never written back into the unlocked variable's
\* input field.
C29_PerformWritesOutcomeFieldsOnly ==
    op = "perform_calculation" =>
        /\ output.exc = ""
        /\ DOMAIN input \subseteq DOMAIN output.val
        /\ (DOMAIN output.val) \ (DOMAIN input) \subseteq OutcomeFields
        /\ \A k \in (DOMAIN input) \ OutcomeFields : output.val[k] = input[k]

\* An ISO computed as 1600 for a record whose own iso field holds 100: the
\* field still holds 100 after the call.
C29_Witness ==
    /\ op = "perform_calculation"
    /\ OnlyUnlocked(input, "lock_iso")
    /\ "iso" \in DOMAIN input
    /\ input["iso"] = Int2Rat(100)
    /\ output.val["result"] = IntVal(1600)
    /\ output.val["iso"] = Int2Rat(100)

-----------------------------------------------------------------------------
(* perform_calculation without the validator *)

\* C30: when perform_calculation is called without the validator's
\* precondition: with all three lock flags true it runs no compute function
\* and returns the record with result, result_key, warning and error
\* unchanged, nothing populated; with fewer than two locks true it computes
\* only the first unlocked variable in the fixed priority aperture, then
\* shutter speed, then ISO.
C30_PerformWithoutValidator ==
    op = "perform_calculation" =>
        /\ LockCount(input) = 3 =>
                /\ CallsOf(ComputeFunctions) = << >>
                /\ output.calls = <<"perform_calculation">>
                /\ output.exc = ""
                /\ output.val = input
                /\ Populated(input) = {} => Populated(output.val) = {}
        /\ LockCount(input) < 2 =>
                /\ CallsOf(ComputeFunctions) =
                        IF ~input["lock_aperture"] THEN <<"calculate_aperture">>
                        ELSE IF ~input["lock_shutter_speed"]
                        THEN <<"calculate_shutter_speed">>
                        ELSE <<"calculate_iso">>
                /\ output.exc = ""
                /\ output.val["result"] # None =>
                        output.val["result_key"] =
                            IF ~input["lock_aperture"] THEN "Aperture"
                            ELSE IF ~input["lock_shutter_speed"] THEN "Shutter Speed"
                            ELSE "ISO"

\* Only the aperture locked: the shutter speed is computed, the ISO, also
\* unlocked, is not.
C30_Witness ==
    /\ op = "perform_calculation"
    /\ input["lock_aperture"] /\ ~input["lock_shutter_speed"] /\ ~input["lock_iso"]
    /\ output.val["result_key"] = "Shutter Speed"
    /\ CallsOf(ComputeFunctions) = <<"calculate_shutter_speed">>

\* All three locked: the record comes back as it went in.
C30_WitnessAllLocked ==
    /\ op = "perform_calculation"
    /\ LockCount(input) = 3
    /\ output.val = input

=============================================================================
